---- MODULE Spec2Model ----
(***************************************************************************)
(* A model of bibtex_to_manubot: the identifier extractors (utils.py), the *)
(* record normalizer (models.py) and the converter (converter.py):         *)
(* identifier resolution, citation building, the batch orchestrator,       *)
(* arXiv duplicate removal and the sort of save_yaml.                      *)
(*                                                                         *)
(* A Python str is a sequence of one-character strings; None is the value  *)
(* None below.  A Python dict, and an object whose attributes are          *)
(* Optional, is a function whose DOMAIN holds the keys that are present    *)
(* (for an object: the attributes that are not None).                      *)
(***************************************************************************)
EXTENDS Integers, Sequences, FiniteSets, TLC

VARIABLES
    pc,                   \* the position of the run under way
    citation_priority,    \* BibTeXConverter.citation_priority
    entry,                \* the BibTeXEntry handed to convert_entry
    resolved,             \* what _extract_best_identifier returned for entry
    result,               \* the ConversionResult convert_entry returned
    input_paths,          \* batch_convert's input sources, in order
    all_entries,          \* batch_convert: entries and synthetic failures
    file_idx,             \* batch_convert: the source the loop is at
    conversion_results,   \* batch_convert: outcomes so far
    batch_result,         \* the BatchConversionResult
    successful_citations, \* save_yaml: the citation dicts being worked on
    arxiv_to_remove,      \* _remove_arxiv_duplicates: ids marked for removal
    min_overlap_arg,      \* _remove_arxiv_duplicates: the threshold
    marked,               \* positions whose own scan reached the marking
    deduplicated,         \* save_yaml: the list duplicate removal returned
    emitted,              \* save_yaml: the list handed to the writer
    arg,                  \* the arguments of the function applied alone
    ret                   \* what the function applied alone returned

vars == <<pc, citation_priority, entry, resolved, result, input_paths,
          all_entries, file_idx, conversion_results, batch_result,
          successful_citations, min_overlap_arg, arxiv_to_remove,
          marked, deduplicated, emitted, arg, ret>>

(***************************************************************************)
(* Strings                                                                 *)
(***************************************************************************)

\* Python's None, for Optional[str] values.
None == <<"<None>">>

\* The empty dict.
EmptyDict == [k \in {} |-> None]

\* dict.get(k) / an Optional attribute read.
Get(d, k) == IF k \in DOMAIN d THEN d[k] ELSE None

\* Python truthiness of an Optional[str].
Truthy(s) == s # None /\ s # <<>>

\* The printable ASCII characters in code point order, from 32 (space);
\* <96> stands for the backquote, which no model string holds.
Ascii ==
    <<" ", "!", "\"", "#", "$", "%", "&", "'", "(", ")", "*", "+", ",", "-",
      ".", "/", "0", "1", "2", "3", "4", "5", "6", "7", "8", "9", ":", ";",
      "<", "=", ">", "?", "@", "A", "B", "C", "D", "E", "F", "G", "H", "I",
      "J", "K", "L", "M", "N", "O", "P", "Q", "R", "S", "T", "U", "V", "W",
      "X", "Y", "Z", "[", "\\", "]", "^", "_", "<96>", "a", "b", "c", "d", "e",
      "f", "g", "h", "i", "j", "k", "l", "m", "n", "o", "p", "q", "r", "s",
      "t", "u", "v", "w", "x", "y", "z", "{", "|", "}", "~">>

\* The code point of a character (tab and newline come before space).
Ord(c) ==
    IF c = "\t" THEN 9
    ELSE IF c = "\n" THEN 10
    ELSE 31 + (CHOOSE i \in 1..Len(Ascii) : Ascii[i] = c)

Chr(n) == Ascii[n - 31]

Digits == {"0", "1", "2", "3", "4", "5", "6", "7", "8", "9"}
UpperLetters == {Chr(n) : n \in 65..90}
LowerLetters == {Chr(n) : n \in 97..122}
Letters == UpperLetters \cup LowerLetters
Whitespace == {" ", "\t", "\n"}

IsDigit(c) == c \in Digits
IsSpace(c) == c \in Whitespace
IsLetter(c) == c \in Letters
\* \w
IsWordChar(c) == c \in Letters \cup Digits \cup {"_"}

\* str.lower() and str.upper() on one character.
LowerChar(c) == IF c \in UpperLetters THEN Chr(Ord(c) + 32) ELSE c
UpperChar(c) == IF c \in LowerLetters THEN Chr(Ord(c) - 32) ELSE c

Lower(s) == [i \in 1..Len(s) |-> LowerChar(s[i])]
Upper(s) == [i \in 1..Len(s) |-> UpperChar(s[i])]

\* The character at position i, or "" past either end.
At(s, i) == IF i \in 1..Len(s) THEN s[i] ELSE ""

\* s[i-1:j-1] in Python's terms: positions i .. j-1.
Slice(s, i, j) == SubSeq(s, i, j - 1)

\* Where a greedy run of characters satisfying P, started at i, stops.
RunEnd(P(_), s, i) ==
    IF i > Len(s) THEN i
    ELSE CHOOSE j \in i..(Len(s) + 1) :
             /\ \A k \in i..(j - 1) : P(s[k])
             /\ (j = Len(s) + 1 \/ ~P(s[j]))

\* str.strip()
Strip(s) ==
    LET a == RunEnd(IsSpace, s, 1)
    IN  IF a > Len(s) THEN <<>>
        ELSE LET b == CHOOSE j \in a..Len(s) :
                          /\ ~IsSpace(s[j])
                          /\ \A k \in (j + 1)..Len(s) : IsSpace(s[k])
             IN  SubSeq(s, a, b)

\* Whether the literal lit stands at position i of s, ignoring case.
LitCI(s, i, lit) ==
    /\ i >= 1
    /\ i + Len(lit) - 1 <= Len(s)
    /\ \A k \in 1..Len(lit) : LowerChar(s[i + k - 1]) = LowerChar(lit[k])

\* Whether the literal lit stands at position i of s.
Lit(s, i, lit) ==
    /\ i >= 1
    /\ i + Len(lit) - 1 <= Len(s)
    /\ \A k \in 1..Len(lit) : s[i + k - 1] = lit[k]

\* str.isdigit() on ASCII text.
IsDigitStr(s) == s # <<>> /\ \A k \in 1..Len(s) : IsDigit(s[k])

\* re.search: the group of the leftmost position where a pattern matches.
\* GroupAt(s, p) is <<from, to>> (the group is s[from .. to-1]) when the
\* pattern matches at p, and <<>> when it does not.
SearchGroup(GroupAt(_, _), s) ==
    LET hits == {p \in 1..Len(s) : GroupAt(s, p) # <<>>}
    IN  IF hits = {} THEN None
        ELSE LET p == CHOOSE q \in hits : \A r \in hits : q <= r
                 g == GroupAt(s, p)
             IN  Slice(s, g[1], g[2])

\* The first candidate, in pattern order, that matched and is valid.
RECURSIVE FirstValid(_, _)
FirstValid(Valid(_), cands) ==
    IF cands = <<>> THEN None
    ELSE IF Head(cands) # None /\ Valid(Head(cands)) THEN Head(cands)
    ELSE FirstValid(Valid, Tail(cands))

(***************************************************************************)
(* utils.py: the identifier extractors                                     *)
(***************************************************************************)

\* [^\s,}]
DoiChar(c) == ~IsSpace(c) /\ c # "," /\ c # "}"

\* [^\s]
NonSpace(c) == ~IsSpace(c)

\* 10\.\d+/[^\s,}]+ at position i: where the match ends, or 0.
DoiBodyEnd(s, i) ==
    IF ~Lit(s, i, <<"1", "0", ".">>) THEN 0
    ELSE LET d == RunEnd(IsDigit, s, i + 3)
         IN  IF d = i + 3 \/ At(s, d) # "/" THEN 0
             ELSE LET e == RunEnd(DoiChar, s, d + 1)
                  IN  IF e = d + 1 THEN 0 ELSE e

\* (?:doi:)\s*(10\.\d+/[^\s,}]+)
DoiPrefixedAt(s, p) ==
    IF ~LitCI(s, p, <<"d", "o", "i", ":">>) THEN <<>>
    ELSE LET q == RunEnd(IsSpace, s, p + 4)
             e == DoiBodyEnd(s, q)
         IN  IF e = 0 THEN <<>> ELSE <<q, e>>

\* https?:// at position p: where it ends, or 0.
HttpEnd(s, p) ==
    IF ~LitCI(s, p, <<"h", "t", "t", "p">>) THEN 0
    ELSE LET q == IF LowerChar(At(s, p + 4)) = "s" THEN p + 5 ELSE p + 4
         IN  IF LitCI(s, q, <<":", "/", "/">>) THEN q + 3 ELSE 0

\* (?:https?://(?:dx\.)?doi\.org/)(10\.\d+/[^\s,}]+)
DoiUrlAt(s, p) ==
    LET h == HttpEnd(s, p)
    IN  IF h = 0 THEN <<>>
        ELSE LET q == IF LitCI(s, h, <<"d", "x", ".">>) THEN h + 3 ELSE h
             IN  IF ~LitCI(s, q, <<"d", "o", "i", ".", "o", "r", "g", "/">>) THEN <<>>
                 ELSE LET e == DoiBodyEnd(s, q + 8)
                      IN  IF e = 0 THEN <<>> ELSE <<q + 8, e>>

\* ^(10\.\d+/[^\s,}]+)$
DoiWhole(s) ==
    IF DoiBodyEnd(s, 1) = Len(s) + 1 THEN s ELSE None

\* (10\.\d+/[^\s,}]+)
DoiAnywhereAt(s, p) ==
    LET e == DoiBodyEnd(s, p) IN IF e = 0 THEN <<>> ELSE <<p, e>>

\* re.sub(r'[,;.\s]+$', '', doi)
DoiTrailing(c) == c \in {",", ";", "."} \/ IsSpace(c)

StripTrailingPunct(doi) ==
    IF doi = None THEN None
    ELSE LET keep == {j \in 0..Len(doi) :
                        \A k \in (j + 1)..Len(doi) : DoiTrailing(doi[k])}
             n == CHOOSE j \in keep : \A r \in keep : j <= r
         IN  SubSeq(doi, 1, n)

\* ^10\.\d{4,}/[^\s]+$ on doi.strip()
validate_doi(doi) ==
    IF doi = None \/ doi = <<>> THEN FALSE
    ELSE LET s == Strip(doi)
         IN  /\ Lit(s, 1, <<"1", "0", ".">>)
             /\ LET d == RunEnd(IsDigit, s, 4)
                IN  /\ d - 4 >= 4
                    /\ At(s, d) = "/"
                    /\ d + 1 <= Len(s)
                    /\ RunEnd(NonSpace, s, d + 1) = Len(s) + 1

extract_doi(text) ==
    IF ~Truthy(text) THEN None
    ELSE LET s == Strip(text)
         IN  FirstValid(validate_doi,
                 << StripTrailingPunct(SearchGroup(DoiPrefixedAt, s)),
                    StripTrailingPunct(SearchGroup(DoiUrlAt, s)),
                    StripTrailingPunct(DoiWhole(s)),
                    StripTrailingPunct(SearchGroup(DoiAnywhereAt, s)) >>)

\* An optional ":" at position q: where the prefix ends.
SkipColon(s, q) == IF At(s, q) = ":" THEN q + 1 ELSE q

\* \s*(\d+) at position q: the group, or <<>>.
SpacesDigitsAt(s, q) ==
    LET a == RunEnd(IsSpace, s, q)
        e == RunEnd(IsDigit, s, a)
    IN  IF e = a THEN <<>> ELSE <<a, e>>

\* (?:pmid:?)\s*(\d+)
PmidPrefixedAt(s, p) ==
    IF ~LitCI(s, p, <<"p", "m", "i", "d">>) THEN <<>>
    ELSE SpacesDigitsAt(s, SkipColon(s, p + 4))

\* (?:pubmed\s*id:?)\s*(\d+)
PubmedIdAt(s, p) ==
    IF ~LitCI(s, p, <<"p", "u", "b", "m", "e", "d">>) THEN <<>>
    ELSE LET q == RunEnd(IsSpace, s, p + 6)
         IN  IF ~LitCI(s, q, <<"i", "d">>) THEN <<>>
             ELSE SpacesDigitsAt(s, SkipColon(s, q + 2))

\* (?:pubmed:?)\s*(\d+)
PubmedAt(s, p) ==
    IF ~LitCI(s, p, <<"p", "u", "b", "m", "e", "d">>) THEN <<>>
    ELSE SpacesDigitsAt(s, SkipColon(s, p + 6))

\* ^(\d{7,8})$
PmidWhole(s) ==
    IF IsDigitStr(s) /\ Len(s) \in 7..8 THEN s ELSE None

\* pmid.isdigit() and 7 <= len(pmid) <= 8
ValidPmid(pmid) == IsDigitStr(pmid) /\ 7 <= Len(pmid) /\ Len(pmid) <= 8

extract_pmid(text) ==
    IF ~Truthy(text) THEN None
    ELSE LET s == Strip(text)
         IN  FirstValid(ValidPmid,
                 << SearchGroup(PmidPrefixedAt, s),
                    SearchGroup(PubmedIdAt, s),
                    SearchGroup(PubmedAt, s),
                    PmidWhole(s) >>)

\* (PMC\d+) at position q, ignoring case: the group, or <<>>.
PmcBodyAt(s, q) ==
    IF ~LitCI(s, q, <<"P", "M", "C">>) THEN <<>>
    ELSE LET e == RunEnd(IsDigit, s, q + 3)
         IN  IF e = q + 3 THEN <<>> ELSE <<q, e>>

\* (?:pmc:?)\s*(PMC\d+)
PmcPrefixedAt(s, p) ==
    IF ~LitCI(s, p, <<"p", "m", "c">>) THEN <<>>
    ELSE PmcBodyAt(s, RunEnd(IsSpace, s, SkipColon(s, p + 3)))

\* (?:pmcid:?)\s*(PMC\d+)
PmcidPrefixedAt(s, p) ==
    IF ~LitCI(s, p, <<"p", "m", "c", "i", "d">>) THEN <<>>
    ELSE PmcBodyAt(s, RunEnd(IsSpace, s, SkipColon(s, p + 5)))

\* ^(PMC\d+)$
PmcWhole(s) ==
    LET g == PmcBodyAt(s, 1)
    IN  IF g # <<>> /\ g[2] = Len(s) + 1 THEN s ELSE None

\* match.group(1).upper()
UpperOpt(s) == IF s = None THEN None ELSE Upper(s)

\* pmcid.startswith('PMC') and pmcid[3:].isdigit()
ValidPmcid(pmcid) ==
    /\ Lit(pmcid, 1, <<"P", "M", "C">>)
    /\ IsDigitStr(SubSeq(pmcid, 4, Len(pmcid)))

extract_pmcid(text) ==
    IF ~Truthy(text) THEN None
    ELSE LET s == Strip(text)
         IN  FirstValid(ValidPmcid,
                 << UpperOpt(SearchGroup(PmcPrefixedAt, s)),
                    UpperOpt(SearchGroup(PmcidPrefixedAt, s)),
                    UpperOpt(PmcWhole(s)),
                    UpperOpt(SearchGroup(PmcBodyAt, s)) >>)

\* [\d.]
DigitOrDot(c) == IsDigit(c) \/ c = "."

\* [a-z-] under re.IGNORECASE
LetterOrHyphen(c) == IsLetter(c) \/ c = "-"

\* [a-z-]
LowerOrHyphen(c) == c \in LowerLetters \/ c = "-"

\* ([\d.]+v?\d*) at position q, ignoring case: the group, or <<>>.
ArxivLooseAt(s, q) ==
    LET a == RunEnd(DigitOrDot, s, q)
    IN  IF a = q \/ q > Len(s) THEN <<>>
        ELSE LET b == IF LowerChar(At(s, a)) = "v" THEN a + 1 ELSE a
             IN  <<q, RunEnd(IsDigit, s, b)>>

\* (?:arxiv:)\s*([\d.]+v?\d*)
ArxivPrefixedAt(s, p) ==
    IF ~LitCI(s, p, <<"a", "r", "x", "i", "v", ":">>) THEN <<>>
    ELSE ArxivLooseAt(s, RunEnd(IsSpace, s, p + 6))

\* (?:https?://arxiv\.org/abs/)([\d.]+v?\d*)
ArxivUrlAt(s, p) ==
    LET h == HttpEnd(s, p)
    IN  IF h = 0 THEN <<>>
        ELSE IF ~LitCI(s, h, <<"a", "r", "x", "i", "v", ".", "o", "r", "g",
                                "/", "a", "b", "s", "/">>) THEN <<>>
        ELSE ArxivLooseAt(s, h + 14)

\* ^([\d.]+v?\d*)$
ArxivWhole(s) ==
    LET g == ArxivLooseAt(s, 1)
    IN  IF g # <<>> /\ g[2] = Len(s) + 1 THEN s ELSE None

\* \d{4}\.\d{4,5}(?:v\d+)? at position q; the v is matched ignoring case
\* when ci holds.  Where the match ends, or 0.
ArxivNewEnd(s, q, ci) ==
    IF ~(\A k \in q..(q + 3) : IsDigit(At(s, k))) \/ At(s, q + 4) # "." THEN 0
    ELSE LET d == RunEnd(IsDigit, s, q + 5)
             n == IF d - (q + 5) >= 5 THEN q + 10 ELSE d
         IN  IF n - (q + 5) < 4 THEN 0
             ELSE LET isv == IF ci THEN LowerChar(At(s, n)) = "v"
                                   ELSE At(s, n) = "v"
                      e == RunEnd(IsDigit, s, n + 1)
                  IN  IF isv /\ n + 1 <= Len(s) /\ e > n + 1 THEN e ELSE n

\* (\d{4}\.\d{4,5}(?:v\d+)?)
ArxivNewAt(s, p) ==
    LET e == ArxivNewEnd(s, p, TRUE) IN IF e = 0 THEN <<>> ELSE <<p, e>>

\* [a-z-]+(?:\.[A-Z]{2})?/\d{7} at position q; ci: under re.IGNORECASE.
\* Where the match ends, or 0.
ArxivOldEnd(s, q, ci) ==
    LET a == IF ci THEN RunEnd(LetterOrHyphen, s, q)
                   ELSE RunEnd(LowerOrHyphen, s, q)
    IN  IF a = q \/ q > Len(s) THEN 0
        ELSE LET sub == /\ At(s, a) = "."
                        /\ \A k \in (a + 1)..(a + 2) :
                              IF ci THEN IsLetter(At(s, k))
                                    ELSE At(s, k) \in UpperLetters
                 b == IF sub /\ At(s, a + 3) = "/" THEN a + 3 ELSE a
             IN  IF At(s, b) = "/"
                    /\ \A k \in (b + 1)..(b + 7) : IsDigit(At(s, k))
                 THEN b + 8 ELSE 0

\* ([a-z-]+(?:\.[A-Z]{2})?/\d{7})
ArxivOldAt(s, p) ==
    LET e == ArxivOldEnd(s, p, TRUE) IN IF e = 0 THEN <<>> ELSE <<p, e>>

\* No validation: every candidate a pattern matched passes.
AnyCandidate(id) == TRUE

\* re.match(r'^\d{4}\.\d{4,5}(?:v\d+)?$', id) or
\* re.match(r'^[a-z-]+(?:\.[A-Z]{2})?/\d{7}$', id)
ValidArxiv(id) ==
    \/ ArxivNewEnd(id, 1, FALSE) = Len(id) + 1
    \/ ArxivOldEnd(id, 1, FALSE) = Len(id) + 1

extract_arxiv_id(text) ==
    IF ~Truthy(text) THEN None
    ELSE LET s == Strip(text)
         IN  FirstValid(ValidArxiv,
                 << SearchGroup(ArxivPrefixedAt, s),
                    SearchGroup(ArxivPrefixedAt, s),
                    SearchGroup(ArxivUrlAt, s),
                    ArxivWhole(s),
                    SearchGroup(ArxivNewAt, s),
                    SearchGroup(ArxivOldAt, s) >>)

\* [\dX]
DigitOrX(c) == IsDigit(c) \/ c = "X"

\* re.sub(r'[^\dX]', '', text.upper())
RECURSIVE KeepDigitsX(_)
KeepDigitsX(s) ==
    IF s = <<>> THEN <<>>
    ELSE IF DigitOrX(UpperChar(Head(s)))
         THEN <<UpperChar(Head(s))>> \o KeepDigitsX(Tail(s))
         ELSE KeepDigitsX(Tail(s))

\* (978\d{10}) at position q: the group, or <<>>.
Isbn13At(s, q) ==
    IF Lit(s, q, <<"9", "7", "8">>)
       /\ \A k \in (q + 3)..(q + 12) : IsDigit(At(s, k))
    THEN <<q, q + 13>> ELSE <<>>

\* (\d{9}[\dX]) at position q, under re.IGNORECASE: the group, or <<>>.
Isbn10At(s, q) ==
    IF /\ \A k \in q..(q + 8) : IsDigit(At(s, k))
       /\ DigitOrX(UpperChar(At(s, q + 9)))
    THEN <<q, q + 10>> ELSE <<>>

\* (?:isbn:?\s*) at position p: where the prefix ends, or 0.
IsbnPrefixEnd(s, p) ==
    IF ~LitCI(s, p, <<"i", "s", "b", "n">>) THEN 0
    ELSE RunEnd(IsSpace, s, SkipColon(s, p + 4))

\* (?:isbn:?\s*)(978\d{10})
Isbn13PrefixedAt(s, p) ==
    LET q == IsbnPrefixEnd(s, p) IN IF q = 0 THEN <<>> ELSE Isbn13At(s, q)

\* (?:isbn:?\s*)(\d{9}[\dX])
Isbn10PrefixedAt(s, p) ==
    LET q == IsbnPrefixEnd(s, p) IN IF q = 0 THEN <<>> ELSE Isbn10At(s, q)

\* The fallback patterns return their group unvalidated.
AnyMatch(s) == TRUE

extract_isbn(text) ==
    IF ~Truthy(text) THEN None
    ELSE LET clean_text == KeepDigitsX(text)
         IN  IF Len(clean_text) = 13 /\ IsDigitStr(clean_text) THEN clean_text
             ELSE IF /\ Len(clean_text) = 10
                     /\ IsDigitStr(SubSeq(clean_text, 1, 9))
                     /\ DigitOrX(clean_text[10])
                  THEN clean_text
             ELSE FirstValid(AnyMatch,
                      << SearchGroup(Isbn13PrefixedAt, text),
                         SearchGroup(Isbn10PrefixedAt, text),
                         SearchGroup(Isbn13At, text),
                         SearchGroup(Isbn10At, text) >>)

\* urlsplit drops tab and newline characters from the URL.
RECURSIVE DropTabNewline(_)
DropTabNewline(s) ==
    IF s = <<>> THEN <<>>
    ELSE IF Head(s) \in {"\t", "\n"} THEN DropTabNewline(Tail(s))
    ELSE <<Head(s)>> \o DropTabNewline(Tail(s))

\* The end of the netloc: the first of / ? # from position i on.
NetlocChar(c) == c \notin {"/", "?", "#"}

\* urlparse(url.strip()): scheme in (http, https) and a non-empty netloc; a
\* netloc with one square bracket and not the other raises ValueError, which
\* validate_url turns into False.
validate_url(url) ==
    IF ~Truthy(url) THEN FALSE
    ELSE LET u == DropTabNewline(Strip(url))
             h == IF LitCI(u, 1, <<"h", "t", "t", "p", ":">>) THEN 6
                  ELSE IF LitCI(u, 1, <<"h", "t", "t", "p", "s", ":">>) THEN 7
                  ELSE 0
         IN  /\ h # 0
             /\ Lit(u, h, <<"/", "/">>)
             /\ LET e == RunEnd(NetlocChar, u, h + 2)
                    netloc == Slice(u, h + 2, e)
                    open == \E k \in 1..Len(netloc) : netloc[k] = "["
                    close == \E k \in 1..Len(netloc) : netloc[k] = "]"
                IN  netloc # <<>> /\ (open <=> close)

(***************************************************************************)
(* utils.py: field cleaning and the publication date                       *)
(***************************************************************************)

\* str.split() on whitespace: the maximal runs of non-space characters.
RECURSIVE SplitWhitespace(_)
SplitWhitespace(s) ==
    LET a == RunEnd(IsSpace, s, 1)
    IN  IF a > Len(s) THEN <<>>
        ELSE LET b == RunEnd(NonSpace, s, a)
             IN  <<Slice(s, a, b)>> \o SplitWhitespace(SubSeq(s, b, Len(s)))

\* sep.join(parts)
RECURSIVE Join(_, _)
Join(sep, parts) ==
    IF parts = <<>> THEN <<>>
    ELSE IF Len(parts) = 1 THEN parts[1]
    ELSE parts[1] \o sep \o Join(sep, Tail(parts))

\* [^}]
NotCloseBrace(c) == c # "}"

\* re.sub(open + r'([^}]+)' + close, r'\1', s) for open = n times "{" and
\* close = n times "}" (n is 2, then 1): leftmost matches, left to right.
RECURSIVE SubBraces(_, _)
SubBraces(n, s) ==
    IF s = <<>> THEN <<>>
    ELSE LET p == RunEnd(NotCloseBrace, s, n + 1)
             hit == /\ \A k \in 1..n : At(s, k) = "{"
                    /\ p > n + 1
                    /\ \A k \in p..(p + n - 1) : At(s, k) = "}"
         IN  IF hit THEN Slice(s, n + 1, p) \o SubBraces(n, SubSeq(s, p + n, Len(s)))
             ELSE <<Head(s)>> \o SubBraces(n, Tail(s))

\* clean_bibtex_field, for text without a backslash: the LaTeX replacements
\* all need one, so they leave such text as it is.
clean_bibtex_field(field) ==
    IF ~Truthy(field) THEN <<>>
    ELSE LET stripped == Strip(field)
             unbraced == IF /\ stripped # <<>>
                            /\ stripped[1] = "{"
                            /\ stripped[Len(stripped)] = "}"
                         THEN SubSeq(stripped, 2, Len(stripped) - 1)
                         ELSE stripped
         IN  Join(<<" ">>, SplitWhitespace(SubBraces(1, SubBraces(2, unbraced))))

\* The value of a decimal digit.
DigitVal(c) == Ord(c) - 48

\* int(s) for a string of ASCII digits.
RECURSIVE StrToNat(_)
StrToNat(s) ==
    IF s = <<>> THEN 0
    ELSE 10 * StrToNat(SubSeq(s, 1, Len(s) - 1)) + DigitVal(s[Len(s)])

\* str(n) for a natural number.
RECURSIVE NatToStr(_)
NatToStr(n) ==
    IF n < 10 THEN <<Chr(48 + n)>>
    ELSE NatToStr(n \div 10) \o <<Chr(48 + (n % 10))>>

\* f"{n}"
IntToStr(n) == IF n < 0 THEN <<"-">> \o NatToStr(-n) ELSE NatToStr(n)

\* f"{n:02d}"
TwoDigits(n) == IF n < 10 THEN <<"0">> \o NatToStr(n) ELSE NatToStr(n)

\* month_mapping: the month number of a lower-cased month name, or 0.
month_mapping(m) ==
    CASE m \in {<<"j","a","n","u","a","r","y">>, <<"j","a","n">>} -> 1
      [] m \in {<<"f","e","b","r","u","a","r","y">>, <<"f","e","b">>} -> 2
      [] m \in {<<"m","a","r","c","h">>, <<"m","a","r">>} -> 3
      [] m \in {<<"a","p","r","i","l">>, <<"a","p","r">>} -> 4
      [] m = <<"m","a","y">> -> 5
      [] m \in {<<"j","u","n","e">>, <<"j","u","n">>} -> 6
      [] m \in {<<"j","u","l","y">>, <<"j","u","l">>} -> 7
      [] m \in {<<"a","u","g","u","s","t">>, <<"a","u","g">>} -> 8
      [] m \in {<<"s","e","p","t","e","m","b","e","r">>, <<"s","e","p">>,
                <<"s","e","p","t">>} -> 9
      [] m \in {<<"o","c","t","o","b","e","r">>, <<"o","c","t">>} -> 10
      [] m \in {<<"n","o","v","e","m","b","e","r">>, <<"n","o","v">>} -> 11
      [] m \in {<<"d","e","c","e","m","b","e","r">>, <<"d","e","c">>} -> 12
      [] OTHER -> 0

\* datetime(year, month, day) raises ValueError unless this holds.
IsLeap(y) == y % 4 = 0 /\ (y % 100 # 0 \/ y % 400 = 0)

DaysInMonth(y, m) ==
    IF m = 2 THEN (IF IsLeap(y) THEN 29 ELSE 28)
    ELSE IF m \in {4, 6, 9, 11} THEN 30 ELSE 31

MINYEAR == 1
MAXYEAR == 9999

ValidDate(y, m, d) ==
    /\ MINYEAR <= y /\ y <= MAXYEAR
    /\ 1 <= m /\ m <= 12
    /\ 1 <= d /\ d <= DaysInMonth(y, m)

\* An Optional[int]: None is NoInt.  The model's integers are those of a C
\* int; a Python int beyond them (wide) is kept as the nearest C int, and
\* only its sign and its being out of range are known.
CIntMax == 2147483647
NoInt == [some |-> FALSE, val |-> 0, wide |-> FALSE]
PyInt(n) == [some |-> TRUE, val |-> n, wide |-> FALSE]
WideInt(negative) ==
    [some |-> TRUE, val |-> IF negative THEN -CIntMax ELSE CIntMax, wide |-> TRUE]

\* Python truthiness of an Optional[int].
IntTruthy(y) == y.some /\ (y.wide \/ y.val # 0)

\* What stands for a raised OverflowError where a date is expected:
\* datetime() takes its arguments as C ints, a year outside them raises
\* OverflowError, and generate_publication_date catches only ValueError.
OverflowError == <<"<OverflowError>">>

\* generate_publication_date(year, month, day)
generate_publication_date(year, month, day) ==
    IF ~IntTruthy(year) THEN None
    ELSE LET default_month == 6
             default_day == 15
             m == Lower(Strip(month))
             month_num ==
                 IF ~Truthy(month) THEN default_month
                 ELSE IF month_mapping(m) # 0 THEN month_mapping(m)
                 ELSE IF IsDigitStr(m) /\ 1 <= StrToNat(m) /\ StrToNat(m) <= 12
                      THEN StrToNat(m)
                 ELSE default_month
             d == Strip(day)
             day_num ==
                 IF ~Truthy(day) THEN default_day
                 ELSE IF IsDigitStr(d) /\ 1 <= StrToNat(d) /\ StrToNat(d) <= 31
                      THEN StrToNat(d)
                 ELSE default_day
             clamped ==
                 IF month_num = 2 THEN 28
                 ELSE IF month_num \in {4, 6, 9, 11} THEN 30
                 ELSE 31
         IN  IF year.wide THEN OverflowError
             ELSE IF ValidDate(year.val, month_num, day_num)
                  THEN IntToStr(year.val) \o <<"-">> \o TwoDigits(month_num)
                           \o <<"-">> \o TwoDigits(day_num)
             ELSE IntToStr(year.val) \o <<"-">> \o TwoDigits(month_num)
                      \o <<"-">> \o TwoDigits(clamped)

(***************************************************************************)
(* models.py: the record normalizer                                        *)
(***************************************************************************)

\* A dict of one key, or of none when the value is None.
Attr(k, v) == IF v = None THEN EmptyDict ELSE (k :> v)

\* Whether digit string a, read as a number, exceeds digit string b of the
\* same length.
DigitsGreater(a, b) ==
    \E k \in 1..Len(a) :
        /\ \A j \in 1..(k - 1) : a[j] = b[j]
        /\ DigitVal(a[k]) > DigitVal(b[k])

RECURSIVE DropUnderscores(_)
DropUnderscores(s) ==
    IF s = <<>> THEN <<>>
    ELSE IF Head(s) = "_" THEN DropUnderscores(Tail(s))
    ELSE <<Head(s)>> \o DropUnderscores(Tail(s))

IsZero(c) == c = "0"

\* int(text): surrounding whitespace, one sign, and digits with single
\* underscores between them; NoInt stands for a raised ValueError.
IntParse(text) ==
    LET t == Strip(text)
        signed == t # <<>> /\ t[1] \in {"+", "-"}
        negative == signed /\ t[1] = "-"
        body == IF signed THEN Tail(t) ELSE t
        wellformed ==
            /\ body # <<>>
            /\ IsDigit(body[1]) /\ IsDigit(body[Len(body)])
            /\ \A k \in 1..Len(body) : IsDigit(body[k]) \/ body[k] = "_"
            /\ \A k \in 1..(Len(body) - 1) : ~(body[k] = "_" /\ body[k + 1] = "_")
        digits == DropUnderscores(body)
        z == SubSeq(digits, RunEnd(IsZero, digits, 1), Len(digits))
        cmax == <<"2", "1", "4", "7", "4", "8", "3", "6", "4", "7">>
        cmin == <<"2", "1", "4", "7", "4", "8", "3", "6", "4", "8">>
        wide == \/ Len(z) > 10
                \/ Len(z) = 10 /\ DigitsGreater(z, IF negative THEN cmin ELSE cmax)
    IN  IF ~wellformed THEN NoInt
        ELSE IF wide THEN WideInt(negative)
        ELSE IF z = cmin THEN PyInt(-CIntMax - 1)
        ELSE PyInt(IF negative THEN -StrToNat(z) ELSE StrToNat(z))

\* \s+and\s+ at position p: where the match ends, or 0.
AndEnd(s, p) ==
    LET a == RunEnd(IsSpace, s, p)
    IN  IF a > p /\ Lit(s, a, <<"a", "n", "d">>) /\ IsSpace(At(s, a + 3))
        THEN RunEnd(IsSpace, s, a + 3) ELSE 0

\* re.split(r'\s+and\s+', author_string)
RECURSIVE SplitAnd(_)
SplitAnd(s) ==
    LET hits == {p \in 1..Len(s) : AndEnd(s, p) # 0}
    IN  IF hits = {} THEN <<s>>
        ELSE LET p == CHOOSE q \in hits : \A r \in hits : q <= r
             IN  <<SubSeq(s, 1, p - 1)>>
                     \o SplitAnd(SubSeq(s, AndEnd(s, p), Len(s)))

NotComma(c) == c # ","

\* One author of _parse_authors, already stripped and not empty.
CleanAuthor(author) ==
    LET c == RunEnd(NotComma, author, 1)
    IN  IF c > Len(author) THEN author
        ELSE Strip(SubSeq(author, c + 1, Len(author))) \o <<" ">>
                 \o Strip(SubSeq(author, 1, c - 1))

RECURSIVE CleanAuthors(_)
CleanAuthors(authors) ==
    IF authors = <<>> THEN <<>>
    ELSE LET author == Strip(Head(authors))
         IN  IF author # <<>>
             THEN <<CleanAuthor(author)>> \o CleanAuthors(Tail(authors))
             ELSE CleanAuthors(Tail(authors))

_parse_authors(author_string) == CleanAuthors(SplitAnd(author_string))

\* k.lower() for the field names of the model's records.
LowerName(k) ==
    CASE k = "DOI" -> "doi"
      [] k = "Title" -> "title"
      [] k = "Year" -> "year"
      [] k = "archivePrefix" -> "archiveprefix"
      [] OTHER -> k

\* {k.lower(): v for k, v in self.fields.items()}, for fields of which no
\* two names differ only in case.
LowerFields(fields) ==
    [k \in {LowerName(n) : n \in DOMAIN fields} |->
        fields[CHOOSE n \in DOMAIN fields : LowerName(n) = k]]

\* The first operand whatever it is: the eprint field is never read.
OnlyFirst(a, b) == a

\* a or b
Or(a, b) == IF Truthy(a) THEN a ELSE b

\* BibTeXEntry(key, entry_type, fields) after _extract_common_fields: the
\* attributes that are not None, and year as an Optional[int].
BibTeXEntry(key, entry_type, raw_fields) ==
    LET fields == LowerFields(raw_fields)
        opt(k) == Attr(k, Get(fields, k))
    IN  [key |-> key, entry_type |-> entry_type,
         year |-> IF "year" \in DOMAIN fields THEN IntParse(fields["year"])
                  ELSE NoInt]
        @@ opt("title") @@ opt("journal") @@ opt("booktitle") @@ opt("volume")
        @@ opt("number") @@ opt("pages") @@ opt("publisher") @@ opt("doi")
        @@ opt("pmid") @@ opt("pmcid")
        @@ Attr("arxiv", Or(Get(fields, "arxiv"), Get(fields, "eprint")))
        @@ opt("isbn") @@ opt("url")
        @@ (IF "author" \in DOMAIN fields
            THEN "authors" :> _parse_authors(fields["author"]) ELSE EmptyDict)
        @@ opt("month") @@ opt("day")

\* A to_dict that keeps the name journal for the journal or venue.
ToDictWithJournalName(self, include_metadata) ==
    [id |-> self.id, type |-> self.citation_type]
    @@ (IF include_metadata /\ Truthy(Get(self, "journal"))
        THEN "journal" :> self.journal ELSE EmptyDict)

\* ManubotCitation.to_dict(include_metadata)
to_dict(self, include_metadata) ==
    LET opt(k, from) ==
            IF Truthy(Get(self, from)) THEN k :> self[from] ELSE EmptyDict
    IN  [id |-> self.id, type |-> self.citation_type]
        @@ (IF include_metadata
            THEN opt("title", "title")
                 @@ (IF "authors" \in DOMAIN self /\ self.authors # <<>>
                     THEN "authors" :> self.authors ELSE EmptyDict)
                 @@ opt("publisher", "journal")
                 @@ (IF IntTruthy(self.year) THEN "year" :> self.year.val
                     ELSE EmptyDict)
                 @@ opt("date", "date")
                 @@ opt("link", "link")
            ELSE EmptyDict)

(***************************************************************************)
(* converter.py: identifier resolution and convert_entry                   *)
(***************************************************************************)

\* CitationType: the values of the enum.
DOI == <<"d", "o", "i">>
PMID == <<"p", "m", "i", "d">>
PMCID == <<"p", "m", "c", "i", "d">>
ARXIV == <<"a", "r", "x", "i", "v">>
ISBN == <<"i", "s", "b", "n">>
URL == <<"u", "r", "l">>
WIKIDATA == <<"w", "i", "k", "i", "d", "a", "t", "a">>
RAW == <<"r", "a", "w">>

\* Config._get_default_config()['citation_priority']
DefaultPriority == <<DOI, PMID, PMCID, ARXIV, ISBN, URL>>

\* (None, None)
NoIdentifier == <<None, None>>

\* One pass of the loop of _extract_best_identifier: what it returns, or
\* NoIdentifier when the loop goes on.
TryIdentifierType(ent, identifier_type) ==
    LET found(type, clean) ==
            IF Truthy(clean) THEN <<type, clean>> ELSE NoIdentifier
    IN  IF identifier_type = DOI /\ Truthy(Get(ent, "doi"))
            THEN found(DOI, extract_doi(ent.doi))
        ELSE IF identifier_type = PMID /\ Truthy(Get(ent, "pmid"))
            THEN found(PMID, extract_pmid(ent.pmid))
        ELSE IF identifier_type = PMCID /\ Truthy(Get(ent, "pmcid"))
            THEN found(PMCID, extract_pmcid(ent.pmcid))
        ELSE IF identifier_type = ARXIV /\ Truthy(Get(ent, "arxiv"))
            THEN found(ARXIV, extract_arxiv_id(ent.arxiv))
        ELSE IF identifier_type = ISBN /\ Truthy(Get(ent, "isbn"))
            THEN found(ISBN, extract_isbn(ent.isbn))
        ELSE IF identifier_type = URL /\ Truthy(Get(ent, "url"))
            THEN (IF validate_url(ent.url) THEN <<URL, ent.url>>
                  ELSE NoIdentifier)
        ELSE NoIdentifier

\* The loop of _extract_best_identifier over the rest of the priority list,
\* then the fallback to the BibTeX key.  ReturnOrGoOn is the end of one pass:
\* hit is what the pass found.
RECURSIVE ExtractFrom(_, _)
ReturnOrGoOn(hit, ent, rest) ==
    IF hit # NoIdentifier THEN hit ELSE ExtractFrom(ent, rest)

ExtractFrom(ent, priority) ==
    IF priority = <<>>
    THEN (IF ent.key # <<>> THEN <<RAW, ent.key>> ELSE NoIdentifier)
    ELSE ReturnOrGoOn(TryIdentifierType(ent, Head(priority)), ent,
                      Tail(priority))

\* A resolver that tries the families in the default order whatever the
\* configured list says.
ExtractInDefaultOrder(priority, ent) == ExtractFrom(ent, DefaultPriority)

_extract_best_identifier(priority, ent) == ExtractFrom(ent, priority)

\* ConversionResult(original_key=...): the defaults of the model.
ConversionResult(original_key) ==
    [original_key |-> original_key, success |-> FALSE,
     errors |-> <<>>, warnings |-> <<>>]

\* clean_bibtex_field(v) if v else None
CleanOpt(v) == IF Truthy(v) THEN clean_bibtex_field(v) ELSE None

\* A citation whose id is made from the record's key, not the identifier.
CitationWithKeyId(ent, citation_type, identifier, publication_date) ==
    [id |-> citation_type \o <<":">> \o ent.key,
     citation_type |-> citation_type,
     identifier |-> identifier,
     year |-> ent.year,
     original_key |-> ent.key,
     bibtex_type |-> ent.entry_type]

\* A citation whose id is the identifier alone, without its family.
CitationWithBareId(ent, citation_type, identifier, publication_date) ==
    [id |-> identifier,
     citation_type |-> citation_type,
     identifier |-> identifier,
     year |-> ent.year,
     original_key |-> ent.key,
     bibtex_type |-> ent.entry_type]

\* The ManubotCitation convert_entry builds.
ManubotCitation(ent, citation_type, identifier, publication_date) ==
    LET journal_or_conference ==
            IF Truthy(Get(ent, "journal"))
                THEN clean_bibtex_field(ent.journal)
            ELSE IF Truthy(Get(ent, "booktitle"))
                THEN clean_bibtex_field(ent.booktitle)
            ELSE None
    IN  [id |-> citation_type \o <<":">> \o identifier,
         citation_type |-> citation_type,
         identifier |-> identifier,
         year |-> ent.year,
         original_key |-> ent.key,
         bibtex_type |-> ent.entry_type]
        @@ Attr("title", CleanOpt(Get(ent, "title")))
        @@ (IF "authors" \in DOMAIN ent
            THEN "authors" :> ent.authors ELSE EmptyDict)
        @@ Attr("journal", journal_or_conference)
        @@ Attr("date", publication_date)
        @@ Attr("volume", Get(ent, "volume"))
        @@ Attr("issue", Get(ent, "number"))
        @@ Attr("pages", Get(ent, "pages"))
        @@ Attr("publisher", CleanOpt(Get(ent, "publisher")))
        @@ Attr("link", Get(ent, "url"))

\* The warnings of convert_entry, in the order it appends them.
Warnings(ent) ==
    (IF ~Truthy(Get(ent, "title")) THEN <<"No title found">> ELSE <<>>)
    \o (IF "authors" \notin DOMAIN ent \/ ent.authors = <<>>
        THEN <<"No authors found">> ELSE <<>>)
    \o (IF ~IntTruthy(ent.year)
        THEN <<"No publication year found">> ELSE <<>>)

\* A convert_entry that returns the fresh ConversionResult whatever happened.
ConvertSilently(ent, citation_type, identifier, publication_date) ==
    ConversionResult(ent.key)

\* convert_entry once _extract_best_identifier has returned
\* (citation_type, identifier).
ConvertResolved(ent, citation_type, identifier, publication_date) ==
    IF ~Truthy(identifier)
        THEN [ConversionResult(ent.key)
                EXCEPT !.errors = <<"No valid identifier found">>]
    ELSE IF publication_date = OverflowError
        THEN [ConversionResult(ent.key) EXCEPT !.errors =
                <<"Conversion error: signed integer is greater than maximum">>]
    ELSE [ConversionResult(ent.key) EXCEPT !.success = TRUE,
                                           !.warnings = Warnings(ent)]
         @@ ("manubot_citation" :>
                ManubotCitation(ent, citation_type, identifier,
                                publication_date))

\* The first two elements of a tuple, handed to an operator of two more
\* arguments.
ConvertBest(ent, best, publication_date) ==
    ConvertResolved(ent, best[1], best[2], publication_date)

convert_entry(priority, ent) ==
    ConvertBest(ent, _extract_best_identifier(priority, ent),
                generate_publication_date(ent.year, Get(ent, "month"),
                                          Get(ent, "day")))

(***************************************************************************)
(* converter.py: title overlap, duplicate removal and the sort             *)
(***************************************************************************)

\* re.findall(r'\b\w+\b', s): the maximal runs of word characters.
NotWordChar(c) == ~IsWordChar(c)

RECURSIVE FindWords(_)
FindWords(s) ==
    LET a == RunEnd(NotWordChar, s, 1)
    IN  IF a > Len(s) THEN <<>>
        ELSE LET b == RunEnd(IsWordChar, s, a)
             IN  <<Slice(s, a, b)>> \o FindWords(SubSeq(s, b, Len(s)))

\* The comparison at (i, j) without the while loop: one word at most.
OverlapOfFirstWords(words1, words2, i, j, overlap) ==
    IF words1[i] = words2[j] THEN overlap + 1 ELSE overlap

\* The while loop of _find_title_overlap at (i, j), both counted from 1:
\* the overlap it ends with, started from overlap.
RECURSIVE ExtendOverlap(_, _, _, _, _)
ExtendOverlap(words1, words2, i, j, overlap) ==
    IF /\ i + overlap <= Len(words1)
       /\ j + overlap <= Len(words2)
       /\ words1[i + overlap] = words2[j + overlap]
    THEN ExtendOverlap(words1, words2, i, j, overlap + 1)
    ELSE overlap

\* max() over a non-empty set of numbers.
Max(S) == CHOOSE m \in S : \A n \in S : n <= m

_find_title_overlap(title1, title2) ==
    IF ~Truthy(title1) \/ ~Truthy(title2) THEN 0
    ELSE LET words1 == FindWords(Lower(title1))
             words2 == FindWords(Lower(title2))
         IN  Max({0} \cup {ExtendOverlap(words1, words2, i, j, 0) :
                              i \in 1..Len(words1), j \in 1..Len(words2)})

\* The publisher value that marks an arXiv paper.
CoRR == <<"C", "o", "R", "R">>

\* c.get('title', '')
TitleOf(c) == IF "title" \in DOMAIN c THEN c.title ELSE <<>>

\* The positions of arxiv_papers and of non_arxiv_papers in citations.
ArxivPapers(citations) ==
    {i \in 1..Len(citations) : Get(citations[i], "publisher") = CoRR}

NonArxivPapers(citations) ==
    {i \in 1..Len(citations) : Get(citations[i], "publisher") # CoRR}

\* A scan that asks for more than min_overlap words.
ScanHitsAbove(citations, min_overlap) ==
    {a \in ArxivPapers(citations) :
        /\ TitleOf(citations[a]) # <<>>
        /\ \E n \in NonArxivPapers(citations) :
              /\ TitleOf(citations[n]) # <<>>
              /\ _find_title_overlap(TitleOf(citations[a]),
                                     TitleOf(citations[n])) > min_overlap}

\* The positions of the arXiv papers whose scan of the non-arXiv papers
\* reaches arxiv_to_remove.add(...).
ScanHits(citations, min_overlap) ==
    {a \in ArxivPapers(citations) :
        /\ TitleOf(citations[a]) # <<>>
        /\ \E n \in NonArxivPapers(citations) :
              /\ TitleOf(citations[n]) # <<>>
              /\ _find_title_overlap(TitleOf(citations[a]),
                                     TitleOf(citations[n])) >= min_overlap}

\* arxiv_to_remove once the scans are over.
ArxivToRemove(citations, min_overlap) ==
    {citations[a].id : a \in ScanHits(citations, min_overlap)}

\* A filter that leaves out the first citation whose id is in ids and keeps
\* the others.
RECURSIVE FilterOutFirst(_, _)
FilterOutFirst(citations, ids) ==
    IF citations = <<>> THEN <<>>
    ELSE IF Head(citations).id \in ids THEN Tail(citations)
    ELSE <<Head(citations)>> \o FilterOutFirst(Tail(citations), ids)

\* [c for c in citations if c.get('id') not in arxiv_to_remove]
RECURSIVE FilterOut(_, _)
FilterOut(citations, ids) ==
    IF citations = <<>> THEN <<>>
    ELSE IF Head(citations).id \in ids THEN FilterOut(Tail(citations), ids)
    ELSE <<Head(citations)>> \o FilterOut(Tail(citations), ids)

_remove_arxiv_duplicates(citations, min_overlap) ==
    FilterOut(citations, ArxivToRemove(citations, min_overlap))

\* The default of min_overlap.
DefaultMinOverlap == 6

\* a < b for two strings, as Python compares them: by code point.
StrLess(a, b) ==
    \/ Len(a) < Len(b) /\ \A k \in 1..Len(a) : a[k] = b[k]
    \/ \E k \in 1..Len(a) :
          /\ k <= Len(b)
          /\ \A j \in 1..(k - 1) : a[j] = b[j]
          /\ Ord(a[k]) < Ord(b[k])

\* A sort key that compares the titles as they are written.
SortKeyCaseSensitive(x) ==
    <<-(IF "year" \in DOMAIN x THEN x.year ELSE 0), TitleOf(x)>>

\* The sort key of save_yaml.
SortKey(x) ==
    <<-(IF "year" \in DOMAIN x THEN x.year ELSE 0), Lower(TitleOf(x))>>

\* k1 < k2 for two sort keys, compared as tuples.
KeyLess(k1, k2) ==
    \/ k1[1] < k2[1]
    \/ k1[1] = k2[1] /\ StrLess(k1[2], k2[2])

\* x put into a sorted list behind every element that is not greater.
RECURSIVE InsertSorted(_, _)
InsertSorted(x, sorted) ==
    IF sorted = <<>> THEN <<x>>
    ELSE IF KeyLess(SortKey(x), SortKey(Head(sorted)))
         THEN <<x>> \o sorted
         ELSE <<Head(sorted)>> \o InsertSorted(x, Tail(sorted))

\* list.sort(key=...): a stable sort.
RECURSIVE SortCitations(_)
SortCitations(citations) ==
    IF citations = <<>> THEN <<>>
    ELSE InsertSorted(citations[Len(citations)],
                      SortCitations(SubSeq(citations, 1, Len(citations) - 1)))

(***************************************************************************)
(* The inputs of the model                                                 *)
(***************************************************************************)

\* The value of a variable a specification does not use.
Unused == "unused"

\* All sequences over S of length at most n.
RECURSIVE BoundedSeq(_, _)
BoundedSeq(S, n) ==
    IF n = 0 THEN {<<>>}
    ELSE LET shorter == BoundedSeq(S, n - 1)
         IN  shorter \cup {Append(q, x) : q \in {r \in shorter : Len(r) = n - 1},
                                          x \in S}

\* All dicts that give each key of the domain of choices one of the values
\* choices has for it, or leave it out where the values include None.
OptionalDicts(choices) ==
    LET picks == [DOMAIN choices -> UNION {choices[k] : k \in DOMAIN choices}]
        ok(f) == \A k \in DOMAIN choices : f[k] \in choices[k]
        strip(f) == [k \in {k2 \in DOMAIN f : f[k2] # None} |-> f[k]]
    IN  {strip(f) : f \in {g \in picks : ok(g)}}

\* The identifier strings of the model's records.
ValidDoi ==
    <<"1", "0", ".", "1", "2", "3", "4", "/", "e", "x", "a", "m", "p", "l",
      "e">>
PrefixedDoi ==
    <<"d", "o", "i", ":", " ", "1", "0", ".", "1", "2", "3", "4", "/", "e",
      "x", "a", "m", "p", "l", "e", ".">>
ShortDoi == <<"1", "0", ".", "1", "2", "/", "x">>
ValidPmidText == <<"1", "2", "3", "4", "5", "6", "7", "8">>
ShortPmid == <<"1", "2", "3">>
ValidPmcidText == <<"p", "m", "c", "1", "2", "3", "4">>
ValidArxivText == <<"2", "3", "0", "1", ".", "1", "2", "3", "4", "5">>
ValidIsbnText ==
    <<"0", "-", "3", "0", "6", "-", "4", "0", "6", "1", "5", "-", "x">>
ValidUrl ==
    <<"h", "t", "t", "p", "s", ":", "/", "/", "a", ".", "o", "r", "g", "/",
      "p">>
FtpUrl == <<"f", "t", "p", ":", "/", "/", "a", ".", "o", "r", "g">>
KeySmith == <<"s", "m", "i", "t", "h", "2", "0", "2", "0">>
KeyBlank == <<" ", " ">>

\* The longest priority list drawn besides the default one.
MaxPriorityLen == 2

\* The names a priority list is drawn from: the six families the resolver
\* knows, a family it does not try, and a name in the wrong case.
PriorityNames == {DOI, PMID, PMCID, ARXIV, ISBN, URL, WIKIDATA, Upper(DOI)}

Priorities == {DefaultPriority} \cup BoundedSeq(PriorityNames, MaxPriorityLen)

\* The identifier candidates of the records of SpecResolve: every
\* combination of a DOI, a PMID and a URL candidate, with at most one of a
\* PMCID, an arXiv and an ISBN candidate.
ResolveChoices ==
    [doi |-> {None, <<>>, PrefixedDoi, ShortDoi},
     pmid |-> {None, ValidPmidText, ShortPmid},
     url |-> {None, ValidUrl, FtpUrl}]

ResolveExtras ==
    {EmptyDict, "pmcid" :> ValidPmcidText, "eprint" :> ValidArxivText,
     "isbn" :> ValidIsbnText}

ResolveEntries ==
    {BibTeXEntry(k, "article", f @@ g) :
        k \in {<<>>, KeySmith}, f \in OptionalDicts(ResolveChoices),
        g \in ResolveExtras}

(***************************************************************************)
(* SpecResolve: _extract_best_identifier on one record                     *)
(***************************************************************************)

InitResolve ==
    /\ pc = "resolve"
    /\ citation_priority \in Priorities
    /\ entry \in ResolveEntries
    /\ resolved = Unused
    /\ result = Unused
    /\ input_paths = Unused
    /\ all_entries = Unused
    /\ file_idx = Unused
    /\ conversion_results = Unused
    /\ batch_result = Unused
    /\ successful_citations = Unused
    /\ min_overlap_arg = Unused
    /\ arxiv_to_remove = Unused
    /\ marked = Unused
    /\ deduplicated = Unused
    /\ emitted = Unused
    /\ arg = Unused
    /\ ret = Unused

Resolve ==
    /\ pc = "resolve"
    /\ resolved' = _extract_best_identifier(citation_priority, entry)
    /\ pc' = "resolved"
    /\ UNCHANGED <<min_overlap_arg, citation_priority, entry, result,
                   input_paths, all_entries, file_idx, conversion_results,
                   batch_result, successful_citations, arxiv_to_remove,
                   marked, deduplicated, emitted, arg, ret>>

NextResolve == Resolve

SpecResolve == InitResolve /\ [][NextResolve]_vars

(***************************************************************************)
(* Claims about identifier resolution                                      *)
(***************************************************************************)

KnownFamilies == {DOI, PMID, PMCID, ARXIV, ISBN, URL}

\* The record's candidate for a family: the attribute of the same name.
Candidate(ent, family) ==
    CASE family = DOI -> Get(ent, "doi")
      [] family = PMID -> Get(ent, "pmid")
      [] family = PMCID -> Get(ent, "pmcid")
      [] family = ARXIV -> Get(ent, "arxiv")
      [] family = ISBN -> Get(ent, "isbn")
      [] family = URL -> Get(ent, "url")
      [] OTHER -> None

\* What the family's extractor makes of a candidate: the normalised
\* identifier, or None when it does not pass.
Extracted(family, text) ==
    CASE family = DOI -> extract_doi(text)
      [] family = PMID -> extract_pmid(text)
      [] family = PMCID -> extract_pmcid(text)
      [] family = ARXIV -> extract_arxiv_id(text)
      [] family = ISBN -> extract_isbn(text)
      [] family = URL -> IF validate_url(text) THEN text ELSE None
      [] OTHER -> None

\* The family is known, the record has a non-empty candidate for it and the
\* candidate passes the family's extractor.
Qualifies(ent, family) ==
    /\ family \in KnownFamilies
    /\ Truthy(Candidate(ent, family))
    /\ Truthy(Extracted(family, Candidate(ent, family)))

\* The positions of the priority list whose family qualifies.
QualifyingPositions(priority, ent) ==
    {i \in DOMAIN priority : Qualifies(ent, priority[i])}

IsKnownFamily(family) == family \in KnownFamilies

\* C1: the resolver returns the family at the first position of the
\* configured priority list that is a known family, has a non-empty
\* candidate in the record and passes its extractor, with the extractor's
\* value; when no position qualifies it returns no family of the list; and
\* the names of the list that are unknown, or whose family the record lacks,
\* do not change the result.
C1_FirstQualifyingFamily ==
    pc = "resolved" =>
        LET Q == QualifyingPositions(citation_priority, entry)
            first == CHOOSE i \in Q : \A j \in Q : i <= j
            qualifying(family) == Qualifies(entry, family)
        IN  /\ Q # {} =>
                /\ resolved[1] = citation_priority[first]
                /\ resolved[2] = Extracted(resolved[1],
                                           Candidate(entry, resolved[1]))
            /\ Q = {} => resolved[1] \notin KnownFamilies
            /\ resolved = _extract_best_identifier(
                              SelectSeq(citation_priority, IsKnownFamily),
                              entry)
            /\ resolved = _extract_best_identifier(
                              SelectSeq(citation_priority, qualifying), entry)

\* C1, its case: PMID is configured before DOI, the record has a valid
\* candidate for both, and the resolver returned the PMID.
C1_Witness ==
    /\ pc = "resolved"
    /\ citation_priority = <<PMID, DOI>>
    /\ Qualifies(entry, PMID)
    /\ Qualifies(entry, DOI)
    /\ resolved = <<PMID, ValidPmidText>>

(***************************************************************************)
(* SpecEntry: convert_entry on one record                                  *)
(***************************************************************************)

\* The year, month, day and title strings of the records.
Year2020 == <<"2", "0", "2", "0">>
YearMinus5 == <<"-", "5">>
YearZero == <<"0">>
YearTooWide == <<"2", "1", "4", "7", "4", "8", "3", "6", "4", "8">>
MonthFeb == <<"F", "e", "b">>
Day30 == <<"3", "0">>
TitleGraphs ==
    <<"D", "e", "e", "p", " ", "{", "L", "e", "a", "r", "n", "i", "n", "g",
      "}", " ", "f", "o", "r", " ", "G", "r", "a", "p", "h", "s">>

\* The raw fields of the records of SpecEntry.
EntryChoices ==
    [doi |-> {None, PrefixedDoi, ShortDoi},
     year |-> {None, Year2020, YearMinus5, YearZero, YearTooWide},
     month |-> {None, MonthFeb},
     day |-> {None, Day30},
     title |-> {None, TitleGraphs}]

EntryRecords ==
    {BibTeXEntry(k, "article", f) :
        k \in {<<>>, KeyBlank, KeySmith}, f \in OptionalDicts(EntryChoices)}

EntryPriorities == {DefaultPriority, <<>>, <<URL, WIKIDATA>>}

InitEntry ==
    /\ pc = "convert_entry"
    /\ citation_priority \in EntryPriorities
    /\ entry \in EntryRecords
    /\ resolved = Unused
    /\ result = Unused
    /\ input_paths = Unused
    /\ all_entries = Unused
    /\ file_idx = Unused
    /\ conversion_results = Unused
    /\ batch_result = Unused
    /\ successful_citations = Unused
    /\ min_overlap_arg = Unused
    /\ arxiv_to_remove = Unused
    /\ marked = Unused
    /\ deduplicated = Unused
    /\ emitted = Unused
    /\ arg = Unused
    /\ ret = Unused

\* convert_entry(entry); resolved keeps what its call of
\* _extract_best_identifier returned.
ConvertEntry ==
    /\ pc = "convert_entry"
    /\ resolved' = _extract_best_identifier(citation_priority, entry)
    /\ result' = convert_entry(citation_priority, entry)
    /\ pc' = "converted"
    /\ UNCHANGED <<min_overlap_arg, citation_priority, entry, input_paths,
                   all_entries, file_idx, conversion_results, batch_result,
                   successful_citations, arxiv_to_remove, marked,
                   deduplicated, emitted, arg, ret>>

NextEntry == ConvertEntry

SpecEntry == InitEntry /\ [][NextEntry]_vars

(***************************************************************************)
(* Claims about the raw fallback                                           *)
(***************************************************************************)

\* No family of the configured list yields a valid identifier for the record.
NoFamilyValid == QualifyingPositions(citation_priority, entry) = {}

\* C2: when no family of the priority list yields a valid identifier and the
\* record's key is non-blank, resolution returns (raw, key) and convert_entry
\* succeeds with a citation of type raw whose id is "raw:" followed by the key.
C2_RawFallbackSucceeds ==
    (pc = "converted" /\ NoFamilyValid /\ Strip(entry.key) # <<>>) =>
        /\ resolved = <<RAW, entry.key>>
        /\ result.success
        /\ "manubot_citation" \in DOMAIN result
        /\ result.manubot_citation.id = RAW \o <<":">> \o entry.key
        /\ result.manubot_citation.citation_type = RAW

\* C3: when no family of the priority list yields a valid identifier and the
\* record's key is empty after trimming whitespace, resolution returns
\* nothing and convert_entry returns a failed outcome: success false, no
\* citation, at least one error message.
C3_BlankKeyFails ==
    (pc = "converted" /\ NoFamilyValid /\ Strip(entry.key) = <<>>) =>
        /\ resolved = NoIdentifier
        /\ ~result.success
        /\ "manubot_citation" \notin DOMAIN result
        /\ Len(result.errors) >= 1

(***************************************************************************)
(* Spec: batch_convert over a batch of sources, save_yaml included         *)
(***************************************************************************)

\* The keys, titles and journals of the records of the batches.
KeyPublished == <<"l", "e", "c", "u", "n", "2", "0", "1", "5">>
KeyPreprint == <<"l", "e", "c", "u", "n", "2", "0", "1", "4">>
TitlePublished ==
    <<"D", "e", "e", "p", " ", "L", "e", "a", "r", "n", "i", "n", "g", " ",
      "f", "o", "r", " ", "G", "r", "a", "p", "h", " ", "N", "e", "u", "r",
      "a", "l", " ", "N", "e", "t", "w", "o", "r", "k", " ", "A", "p", "p",
      "l", "i", "c", "a", "t", "i", "o", "n", "s">>
TitlePreprint ==
    <<"D", "e", "e", "p", " ", "l", "e", "a", "r", "n", "i", "n", "g", " ",
      "f", "o", "r", " ", "g", "r", "a", "p", "h", " ", "n", "e", "u", "r",
      "a", "l", " ", "n", "e", "t", "w", "o", "r", "k", " ", "m", "o", "d",
      "e", "l", "s">>
JournalNature == <<"N", "a", "t", "u", "r", "e">>
Year2019 == <<"2", "0", "1", "9">>
FilePrefix == <<"F", "I", "L", "E", ":">>
BibSuffix == <<".", "b", "i", "b">>

\* The entries bibtexparser hands to parse_bibtex_file: a published article
\* with a DOI, its arXiv preprint, an entry without key or identifier, and
\* an entry whose year does not fit a C int.
RawPublished ==
    [ID |-> KeyPublished, ENTRYTYPE |-> <<"a", "r", "t", "i", "c", "l", "e">>,
     fields |-> [doi |-> ValidDoi, title |-> TitlePublished,
                 journal |-> JournalNature, year |-> Year2020]]

RawPreprint ==
    [ID |-> KeyPreprint, ENTRYTYPE |-> <<"A", "r", "t", "i", "c", "l", "e">>,
     fields |-> [eprint |-> ValidArxivText, title |-> TitlePreprint,
                 journal |-> CoRR, year |-> Year2019]]

RawNoKey ==
    [ID |-> <<>>, ENTRYTYPE |-> <<"m", "i", "s", "c">>, fields |-> EmptyDict]

RawTooWide ==
    [ID |-> KeySmith, ENTRYTYPE |-> <<"b", "o", "o", "k">>,
     fields |-> [title |-> TitleGraphs, year |-> YearTooWide]]

RawEntries == {RawPublished, RawPreprint, RawNoKey, RawTooWide}

\* The sources of a batch and their entries together number at most
\* MaxBatchSize.
MaxBatchSize == 5

\* A source without its path: one bibtexparser cannot read, or the entries
\* it reads from it.  SourcesOfSize(k) are the sources that count k: the
\* source itself and k - 1 entries.
SourcesOfSize(k) ==
    {[parseable |-> TRUE, entries |-> es] :
        es \in {q \in BoundedSeq(RawEntries, k - 1) : Len(q) = k - 1}}
    \cup (IF k = 1 THEN {[parseable |-> FALSE, entries |-> <<>>]} ELSE {})

RECURSIVE BatchesUpTo(_)
BatchesUpTo(n) ==
    {<<>>} \cup
    UNION {{<<src>> \o rest : src \in SourcesOfSize(k),
                              rest \in BatchesUpTo(n - k)} : k \in 1..n}

\* The path of the i-th source of a batch.
PathOf(i) == <<"f">> \o NatToStr(i) \o BibSuffix

\* The batches of the model, each source with its path.
InputBatches ==
    {[i \in DOMAIN b |-> [path |-> PathOf(i), parseable |-> b[i].parseable,
                          entries |-> b[i].entries]] :
        b \in BatchesUpTo(MaxBatchSize)}

\* config.get('output.include_metadata', True) under the default
\* configuration.
IncludeMetadata == TRUE

\* parse_bibtex_file(file_path) on a source bibtexparser reads.
parse_bibtex_file(source) ==
    [i \in DOMAIN source.entries |->
        [kind |-> "entry",
         value |-> BibTeXEntry(source.entries[i].ID,
                               Lower(source.entries[i].ENTRYTYPE),
                               source.entries[i].fields)]]

\* A failed result that does not name its source.
FailedWithoutSource(source) ==
    [kind |-> "failed",
     value |-> [ConversionResult(FilePrefix)
                    EXCEPT !.errors = <<"Failed to parse file">>]]

\* The failed ConversionResult batch_convert makes for a source
\* parse_bibtex_file raises on.
FailedToParse(source) ==
    [kind |-> "failed",
     value |-> [ConversionResult(FilePrefix \o source.path)
                    EXCEPT !.errors = <<"Failed to parse file">>]]

\* A batch result that counts the sources instead of the outcomes.
BatchResultPerSource(paths, results) ==
    [input_files |-> [i \in DOMAIN paths |-> paths[i].path],
     total_entries |-> Len(paths),
     successful_conversions |->
        Cardinality({i \in DOMAIN results : results[i].success}),
     failed_conversions |->
        Len(paths) - Cardinality({i \in DOMAIN results : results[i].success}),
     conversions |-> results]

\* BatchConversionResult(...) as batch_convert builds it.
BatchConversionResult(paths, results) ==
    LET successful == Cardinality({i \in DOMAIN results : results[i].success})
        failed == Len(results) - successful
    IN  [input_files |-> [i \in DOMAIN paths |-> paths[i].path],
         total_entries |-> Len(results),
         successful_conversions |-> successful,
         failed_conversions |-> failed,
         conversions |-> results]

\* The citation dicts save_yaml collects from the successful outcomes.
RECURSIVE CollectCitations(_, _)
CollectCitations(conversions, include_metadata) ==
    IF conversions = <<>> THEN <<>>
    ELSE LET r == Head(conversions)
             rest == CollectCitations(Tail(conversions), include_metadata)
         IN  IF r.success /\ "manubot_citation" \in DOMAIN r
             THEN <<to_dict(r.manubot_citation, include_metadata)>> \o rest
             ELSE rest

Init ==
    /\ pc = "parse"
    /\ citation_priority = DefaultPriority
    /\ input_paths \in InputBatches
    /\ file_idx = 1
    /\ all_entries = <<>>
    /\ conversion_results = <<>>
    /\ entry = None
    /\ resolved = Unused
    /\ result = None
    /\ batch_result = None
    /\ successful_citations = <<>>
    /\ min_overlap_arg = DefaultMinOverlap
    /\ arxiv_to_remove = {}
    /\ marked = {}
    /\ deduplicated = <<>>
    /\ emitted = <<>>
    /\ arg = Unused
    /\ ret = Unused

\* One pass of the loop over input_paths: the entries of the source, or the
\* failed result made for it, join all_entries.
ParseFile ==
    /\ pc = "parse"
    /\ file_idx <= Len(input_paths)
    /\ all_entries' =
          IF input_paths[file_idx].parseable
          THEN all_entries \o parse_bibtex_file(input_paths[file_idx])
          ELSE Append(all_entries, FailedToParse(input_paths[file_idx]))
    /\ file_idx' = file_idx + 1
    /\ UNCHANGED <<min_overlap_arg, pc, citation_priority, entry, resolved,
                   result, input_paths, conversion_results, batch_result,
                   successful_citations, arxiv_to_remove, marked,
                   deduplicated, emitted, arg, ret>>

\* A conversion that starts once the first source is read, without the
\* later ones.
StartConvertAfterFirstSource ==
    /\ pc = "parse"
    /\ file_idx > 1 \/ file_idx > Len(input_paths)
    /\ pc' = "convert"
    /\ UNCHANGED <<min_overlap_arg, citation_priority, entry, resolved,
                   result, input_paths, all_entries, file_idx,
                   conversion_results, batch_result, successful_citations,
                   arxiv_to_remove, marked, deduplicated, emitted, arg, ret>>

\* The loop over input_paths is over.
StartConvert ==
    /\ pc = "parse"
    /\ file_idx > Len(input_paths)
    /\ pc' = "convert"
    /\ UNCHANGED <<min_overlap_arg, citation_priority, entry, resolved,
                   result, input_paths, all_entries, file_idx,
                   conversion_results, batch_result, successful_citations,
                   arxiv_to_remove, marked, deduplicated, emitted, arg, ret>>

\* The body of the loop over all_entries: the outcome of one element.
ConvertOne(element) ==
    IF element.kind = "entry"
    THEN convert_entry(citation_priority, element.value)
    ELSE element.value

\* One pass of the loop over all_entries.
ConvertNext ==
    /\ pc = "convert"
    /\ Len(conversion_results) < Len(all_entries)
    /\ entry' = all_entries[Len(conversion_results) + 1].value
    /\ result' = ConvertOne(all_entries[Len(conversion_results) + 1])
    /\ conversion_results' = Append(conversion_results, result')
    /\ UNCHANGED <<min_overlap_arg, pc, citation_priority, resolved,
                   input_paths, all_entries, file_idx, batch_result,
                   successful_citations, arxiv_to_remove, marked,
                   deduplicated, emitted, arg, ret>>

\* The statistics and the BatchConversionResult.
MakeBatchResult ==
    /\ pc = "convert"
    /\ Len(conversion_results) = Len(all_entries)
    /\ batch_result' = BatchConversionResult(input_paths, conversion_results)
    /\ pc' = "save_yaml"
    /\ UNCHANGED <<min_overlap_arg, citation_priority, entry, resolved,
                   result, input_paths, all_entries, file_idx,
                   conversion_results, successful_citations, arxiv_to_remove,
                   marked, deduplicated, emitted, arg, ret>>

\* save_yaml: the citation dicts of the successful outcomes.
CollectSuccessful ==
    /\ pc = "save_yaml"
    /\ successful_citations' =
          CollectCitations(batch_result.conversions, IncludeMetadata)
    /\ pc' = "dedupe"
    /\ UNCHANGED <<min_overlap_arg, citation_priority, entry, resolved,
                   result, input_paths, all_entries, file_idx,
                   conversion_results, batch_result, arxiv_to_remove, marked,
                   deduplicated, emitted, arg, ret>>

\* A duplicate removal that filters the list it was given.
RemoveDuplicatesInPlace ==
    /\ pc = "dedupe"
    /\ marked' = ScanHits(successful_citations, min_overlap_arg)
    /\ arxiv_to_remove' =
          ArxivToRemove(successful_citations, min_overlap_arg)
    /\ deduplicated' =
          _remove_arxiv_duplicates(successful_citations, min_overlap_arg)
    /\ successful_citations' = deduplicated'
    /\ pc' = "sort"
    /\ UNCHANGED <<min_overlap_arg, citation_priority, entry, resolved,
                   result, input_paths, all_entries, file_idx,
                   conversion_results, batch_result, emitted, arg, ret>>

\* save_yaml: _remove_arxiv_duplicates(successful_citations).
RemoveDuplicates ==
    /\ pc = "dedupe"
    /\ marked' = ScanHits(successful_citations, min_overlap_arg)
    /\ arxiv_to_remove' =
          ArxivToRemove(successful_citations, min_overlap_arg)
    /\ deduplicated' =
          _remove_arxiv_duplicates(successful_citations, min_overlap_arg)
    /\ pc' = "sort"
    /\ UNCHANGED <<min_overlap_arg, citation_priority, entry, resolved,
                   result, input_paths, all_entries, file_idx,
                   conversion_results, batch_result, successful_citations,
                   emitted, arg, ret>>

\* save_yaml: the sort, and the citations written in its order.
SortAndWrite ==
    /\ pc = "sort"
    /\ emitted' = SortCitations(deduplicated)
    /\ pc' = "done"
    /\ UNCHANGED <<min_overlap_arg, citation_priority, entry, resolved,
                   result, input_paths, all_entries, file_idx,
                   conversion_results, batch_result, successful_citations,
                   arxiv_to_remove, marked, deduplicated, arg, ret>>

Next ==
    \/ ParseFile
    \/ StartConvert
    \/ ConvertNext
    \/ MakeBatchResult
    \/ CollectSuccessful
    \/ RemoveDuplicates
    \/ SortAndWrite

Spec == Init /\ [][Next]_vars

(***************************************************************************)
(* Claims about batch_convert                                              *)
(***************************************************************************)

\* batch_convert has built its BatchConversionResult.
HasBatchResult == pc \in {"save_yaml", "dedupe", "sort", "done"}

\* The two shapes of a ConversionResult.
WellShaped(r) ==
    \/ /\ r.success
       /\ "manubot_citation" \in DOMAIN r
    \/ /\ ~r.success
       /\ "manubot_citation" \notin DOMAIN r
       /\ Len(r.errors) >= 1

\* C4: every ConversionResult convert_entry or batch_convert produces is a
\* success with a citation attached, or a failure with no citation and at
\* least one error message.
C4_OutcomeShapes ==
    /\ \A i \in DOMAIN conversion_results : WellShaped(conversion_results[i])
    /\ conversion_results # <<>> => WellShaped(result)
    /\ HasBatchResult =>
          \A i \in DOMAIN batch_result.conversions :
              WellShaped(batch_result.conversions[i])

\* C4, its case: the batch is over and holds a success, a failure of
\* convert_entry and a failure made for a source.
C4_Witness ==
    /\ pc = "done"
    /\ \E i, j, k \in DOMAIN batch_result.conversions :
          /\ batch_result.conversions[i].success
          /\ ~batch_result.conversions[j].success
          /\ batch_result.conversions[j].original_key = KeySmith
          /\ ~batch_result.conversions[k].success
          /\ LitCI(batch_result.conversions[k].original_key, 1, FilePrefix)

\* What the batch owes each source, in input order: one outcome per entry
\* of a source that parses, one failure for a source that does not.
RECURSIVE Owed(_)
Owed(sources) ==
    IF sources = <<>> THEN <<>>
    ELSE LET src == Head(sources)
             own == IF src.parseable
                    THEN [i \in DOMAIN src.entries |->
                            [synthetic |-> FALSE, key |-> src.entries[i].ID,
                             raw |-> src.entries[i]]]
                    ELSE <<[synthetic |-> TRUE,
                            key |-> FilePrefix \o src.path]>>
         IN  own \o Owed(Tail(sources))

RECURSIVE CountSuccess(_, _)
CountSuccess(results, value) ==
    IF results = <<>> THEN 0
    ELSE (IF Head(results).success = value THEN 1 ELSE 0)
         + CountSuccess(Tail(results), value)

\* C6: in the BatchConversionResult, total_entries is the number of
\* outcomes, successful_conversions the number of them with success true,
\* failed_conversions the number with success false, and total_entries is
\* their sum.
C6_CountsAgree ==
    HasBatchResult =>
        /\ batch_result.total_entries = Len(batch_result.conversions)
        /\ batch_result.successful_conversions =
              CountSuccess(batch_result.conversions, TRUE)
        /\ batch_result.failed_conversions =
              CountSuccess(batch_result.conversions, FALSE)
        /\ batch_result.total_entries =
              batch_result.successful_conversions
              + batch_result.failed_conversions

\* C6, its case: a batch result with both successes and failures, and more
\* outcomes than sources.
C6_Witness ==
    /\ HasBatchResult
    /\ batch_result.successful_conversions >= 2
    /\ batch_result.failed_conversions >= 1
    /\ batch_result.total_entries > Len(input_paths)

(***************************************************************************)
(* SpecDedup: _remove_arxiv_duplicates on a list of citation dicts         *)
(***************************************************************************)

\* The ids and titles of the citation dicts.
IdA == <<"d", "o", "i", ":", "1", "0", ".", "1", "/", "a">>
IdB == <<"d", "o", "i", ":", "1", "0", ".", "1", "/", "b">>
TitleSeven ==
    <<"a", " ", "b", " ", "c", " ", "d", " ", "e", " ", "f", " ", "g">>
TitleSix == <<"A", "-", "b", ",", " ", "c", " ", "d", " ", "e", " ", "F">>
TitleFive == <<"x", " ", "b", " ", "c", " ", "d", " ", "e", " ", "f">>
TitleBlank == <<" ", " ">>

\* The citation dicts of the lists: the arXiv papers carry the id IdA, the
\* papers of the journal IdB, but for one that shares the id of the arXiv
\* papers, and a paper without publisher IdB.
DedupTitles == {None, TitleSeven, TitleSix, TitleFive, TitleBlank}

DedupCitations ==
    {[id |-> IdA, publisher |-> CoRR] @@ Attr("title", t) : t \in DedupTitles}
    \cup {[id |-> IdB, publisher |-> JournalNature] @@ Attr("title", t) :
            t \in DedupTitles}
    \cup {[id |-> IdA, publisher |-> JournalNature, title |-> TitleSeven],
          [id |-> IdB, title |-> TitleSeven]}

\* The longest list of citation dicts.
MaxCitations == 3

\* The thresholds the lists are filtered with.
MinOverlaps == {DefaultMinOverlap - 1, DefaultMinOverlap, DefaultMinOverlap + 1}

InitDedup ==
    /\ pc = "dedupe"
    /\ successful_citations \in BoundedSeq(DedupCitations, MaxCitations)
    /\ min_overlap_arg \in MinOverlaps
    /\ arxiv_to_remove = {}
    /\ marked = {}
    /\ deduplicated = <<>>
    /\ citation_priority = Unused
    /\ entry = Unused
    /\ resolved = Unused
    /\ result = Unused
    /\ input_paths = Unused
    /\ all_entries = Unused
    /\ file_idx = Unused
    /\ conversion_results = Unused
    /\ batch_result = Unused
    /\ emitted = Unused
    /\ arg = Unused
    /\ ret = Unused

\* _remove_arxiv_duplicates(successful_citations, min_overlap)
RemoveDuplicatesOf ==
    /\ pc = "dedupe"
    /\ marked' = ScanHits(successful_citations, min_overlap_arg)
    /\ arxiv_to_remove' =
          ArxivToRemove(successful_citations, min_overlap_arg)
    /\ deduplicated' =
          _remove_arxiv_duplicates(successful_citations, min_overlap_arg)
    /\ pc' = "deduplicated"
    /\ UNCHANGED <<min_overlap_arg, citation_priority, entry, resolved,
                   result, input_paths, all_entries, file_idx,
                   conversion_results, batch_result, successful_citations,
                   emitted, arg, ret>>

NextDedup == RemoveDuplicatesOf

SpecDedup == InitDedup /\ [][NextDedup]_vars

(***************************************************************************)
(* Claims about duplicate removal                                          *)
(***************************************************************************)

\* The normalized words of a title.
NormalizedWords(title) == FindWords(Lower(title))

\* The two titles share a run of n identical consecutive normalized words.
SharesRun(title1, title2, n) ==
    LET words1 == NormalizedWords(title1)
        words2 == NormalizedWords(title2)
    IN  \E i \in 0..(Len(words1) - n), j \in 0..(Len(words2) - n) :
            \A d \in 1..n : words1[i + d] = words2[j + d]

\* The citation dict is arXiv-sourced; it has a non-blank title.
IsArxivSourced(c) == "publisher" \in DOMAIN c /\ c.publisher = CoRR

HasTitle(c) == "title" \in DOMAIN c /\ Strip(c.title) # <<>>

\* The ids of the list are all different.
DistinctIds(citations) ==
    \A i, j \in DOMAIN citations :
        citations[i].id = citations[j].id => i = j

\* C7: the scan marks an arXiv-sourced entry with a non-blank title for
\* removal if and only if some entry that is not arXiv-sourced and has a
\* non-blank title shares with it a run of at least min_overlap identical
\* consecutive normalized words, and marks no other entry; at the default
\* threshold a longest shared run of 5 does not mark and a run of 6 does;
\* and in a list of distinct ids the entries removed are the marked ones.
C7_MarkedIffSharedRun ==
    pc = "deduplicated" =>
        LET cs == successful_citations
            duplicate(a) ==
                \E n \in DOMAIN cs :
                    /\ ~IsArxivSourced(cs[n])
                    /\ HasTitle(cs[n])
                    /\ SharesRun(cs[a].title, cs[n].title, min_overlap_arg)
        IN  /\ \A a \in DOMAIN cs :
                  (a \in marked) <=>
                      (IsArxivSourced(cs[a]) /\ HasTitle(cs[a]) /\ duplicate(a))
            /\ DistinctIds(cs) =>
                  \A a \in DOMAIN cs :
                      (a \in marked) <=>
                          ~(\E k \in DOMAIN deduplicated :
                                deduplicated[k] = cs[a])

\* C7, its case: at the default threshold the list holds an arXiv paper
\* that shares a run of 6 with a published one, and is marked, and an arXiv
\* paper whose longest run shared with it is 5, and is not.
C7_Witness ==
    /\ pc = "deduplicated"
    /\ min_overlap_arg = DefaultMinOverlap
    /\ \E a, b, n \in DOMAIN successful_citations :
          /\ successful_citations[n] =
                [id |-> IdB, publisher |-> JournalNature, title |-> TitleSeven]
          /\ successful_citations[a] =
                [id |-> IdA, publisher |-> CoRR, title |-> TitleSix]
          /\ successful_citations[b] =
                [id |-> IdA, publisher |-> CoRR, title |-> TitleFive]
          /\ a \in marked
          /\ b \notin marked

\* The elements of a list at the positions outside a set, in order.
RECURSIVE DropPositions(_, _, _)
DropPositions(citations, positions, i) ==
    IF i > Len(citations) THEN <<>>
    ELSE (IF i \in positions THEN <<>> ELSE <<citations[i]>>)
         \o DropPositions(citations, positions, i + 1)

\* C8: the output of _remove_arxiv_duplicates is the input with exactly the
\* marked arXiv entries deleted: every other entry appears once per
\* occurrence, in the original order, also when entries share an id.
C8_OnlyMarkedRemoved ==
    pc = "deduplicated" =>
        deduplicated = DropPositions(successful_citations, marked, 1)

(***************************************************************************)
(* SpecSort: the sort of save_yaml on a de-duplicated list                 *)
(***************************************************************************)

\* The titles of the citations to sort.
TitleLowerA == <<"a">>
TitleUpperB == <<"B">>
TitleLowerB == <<"b">>

\* The year fields of the records the citations come from, None for a
\* record without one.
YearFields == {None, Year2020, Year2019, YearMinus5, YearZero}

\* The year the record normalizer makes of a year field.
NormalizedYear(field) == IF field = None THEN NoInt ELSE IntParse(field)

\* The citation dicts to sort: to_dict of a citation with one of the titles
\* and the year of one of the year fields.
CitationsToSort ==
    {to_dict([id |-> IdA, citation_type |-> DOI, year |-> NormalizedYear(y)]
             @@ Attr("title", t), IncludeMetadata) :
        t \in {None, TitleLowerA, TitleUpperB, TitleLowerB}, y \in YearFields}

\* The longest list to sort.
MaxSorted == 3

InitSort ==
    /\ pc = "sort"
    /\ deduplicated \in BoundedSeq(CitationsToSort, MaxSorted)
    /\ emitted = <<>>
    /\ citation_priority = Unused
    /\ entry = Unused
    /\ resolved = Unused
    /\ result = Unused
    /\ input_paths = Unused
    /\ all_entries = Unused
    /\ file_idx = Unused
    /\ conversion_results = Unused
    /\ batch_result = Unused
    /\ successful_citations = Unused
    /\ min_overlap_arg = Unused
    /\ arxiv_to_remove = Unused
    /\ marked = Unused
    /\ arg = Unused
    /\ ret = Unused

\* successful_citations.sort(key=...) and the write in its order.
SortList ==
    /\ pc = "sort"
    /\ emitted' = SortCitations(deduplicated)
    /\ pc' = "sorted"
    /\ UNCHANGED <<min_overlap_arg, citation_priority, entry, resolved,
                   result, input_paths, all_entries, file_idx,
                   conversion_results, batch_result, successful_citations,
                   arxiv_to_remove, marked, deduplicated, arg, ret>>

NextSort == SortList

SpecSort == InitSort /\ [][NextSort]_vars

(***************************************************************************)
(* Claims about the sort                                                   *)
(***************************************************************************)

\* The year of a citation dict, an absent year counting as 0, and its
\* lower-cased title, an absent title counting as the empty one.
YearOf(c) == IF "year" \in DOMAIN c THEN c.year ELSE 0

LowerTitleOf(c) == IF "title" \in DOMAIN c THEN Lower(c.title) ELSE <<>>

\* The elements of a list that have the year and lower-cased title of c, in
\* the order of the list.
SameKeyAs(c, citations) ==
    LET same(x) == YearOf(x) = YearOf(c) /\ LowerTitleOf(x) = LowerTitleOf(c)
    IN  SelectSeq(citations, same)

\* C9: in the emitted sequence every adjacent pair (a before b) has
\* year(a) > year(b), or equal years and lower-cased title(a) <= lower-cased
\* title(b), an absent year counting as 0; the citations equal in year and
\* lower-cased title keep the relative order of the de-duplicated sequence;
\* and the emitted sequence is a permutation of the de-duplicated one.
C9_SortedStablePermutation ==
    pc = "sorted" =>
        /\ \A i \in 1..(Len(emitted) - 1) :
              \/ YearOf(emitted[i]) > YearOf(emitted[i + 1])
              \/ /\ YearOf(emitted[i]) = YearOf(emitted[i + 1])
                 /\ ~StrLess(LowerTitleOf(emitted[i + 1]),
                             LowerTitleOf(emitted[i]))
        /\ \A i \in DOMAIN deduplicated :
              SameKeyAs(deduplicated[i], emitted)
                  = SameKeyAs(deduplicated[i], deduplicated)
        /\ Len(emitted) = Len(deduplicated)
        /\ \A i \in DOMAIN emitted :
              Cardinality({k \in DOMAIN emitted : emitted[k] = emitted[i]})
                  = Cardinality({k \in DOMAIN deduplicated :
                                    deduplicated[k] = emitted[i]})

\* C9, its case: three citations out of order are sorted, two of them equal
\* in year and lower-cased title and kept in their order.
C9_Witness ==
    /\ pc = "sorted"
    /\ deduplicated =
          <<[id |-> IdA, type |-> DOI, title |-> TitleUpperB, year |-> 2019],
            [id |-> IdA, type |-> DOI, title |-> TitleLowerB, year |-> 2019],
            [id |-> IdA, type |-> DOI, title |-> TitleLowerA, year |-> 2020]>>
    /\ emitted =
          <<[id |-> IdA, type |-> DOI, title |-> TitleLowerA, year |-> 2020],
            [id |-> IdA, type |-> DOI, title |-> TitleUpperB, year |-> 2019],
            [id |-> IdA, type |-> DOI, title |-> TitleLowerB, year |-> 2019]>>

\* C10: in the emitted sequence the citations without a year come last: none
\* of them precedes a citation that has a year.
C10_AbsentYearLast ==
    pc = "sorted" =>
        \A i, j \in DOMAIN emitted :
            (i < j /\ "year" \notin DOMAIN emitted[i])
                => "year" \notin DOMAIN emitted[j]

(***************************************************************************)
(* utils.py: generate_publication_date applied alone                       *)
(***************************************************************************)

\* Field values of the date inputs.
MonthFebruary == <<"F", "e", "b", "r", "u", "a", "r", "y">>
MonthLowerFeb == <<"f", "e", "b">>
MonthSept == <<"S", "e", "p", "t">>
MonthPadded4 == <<" ", "4", " ">>
Month13 == <<"1", "3">>
Month12 == <<"1", "2">>
MonthWord == <<"x", "x">>
Day31 == <<"3", "1">>
Day29 == <<"2", "9">>
Day32 == <<"3", "2">>
DayZero == <<"0">>
DayPadded7 == <<" ", "7", " ">>
DayWord == <<"x">>

\* The years a record can carry after BibTeXEntry has parsed them, and None.
DateYears ==
    {NoInt, PyInt(0), PyInt(2020), PyInt(2021), PyInt(2024), PyInt(10000),
     PyInt(-5), WideInt(FALSE)}

DateMonths ==
    {None, <<>>, MonthFebruary, MonthLowerFeb, MonthSept, MonthPadded4,
     Month13, Month12, MonthWord}

DateDays ==
    {None, <<>>, Day31, Day30, Day29, Day32, DayZero, DayPadded7, DayWord}

InitDate ==
    /\ pc = "generate_publication_date"
    /\ arg \in [year : DateYears, month : DateMonths, day : DateDays]
    /\ ret = None
    /\ citation_priority = Unused
    /\ entry = Unused
    /\ resolved = Unused
    /\ result = Unused
    /\ input_paths = Unused
    /\ all_entries = Unused
    /\ file_idx = Unused
    /\ conversion_results = Unused
    /\ batch_result = Unused
    /\ successful_citations = Unused
    /\ min_overlap_arg = Unused
    /\ arxiv_to_remove = Unused
    /\ marked = Unused
    /\ deduplicated = Unused
    /\ emitted = Unused

\* One call generate_publication_date(year, month, day).
GeneratePublicationDate ==
    /\ pc = "generate_publication_date"
    /\ ret' = generate_publication_date(arg.year, arg.month, arg.day)
    /\ pc' = "returned"
    /\ UNCHANGED <<citation_priority, entry, resolved, result, input_paths,
                   all_entries, file_idx, conversion_results, batch_result,
                   successful_citations, min_overlap_arg, arxiv_to_remove,
                   marked, deduplicated, emitted, arg>>

NextDate == GeneratePublicationDate

SpecDate == InitDate /\ [][NextDate]_vars

\* A returned value that is a date: it ends in -MM-DD.
IsDateString(date) ==
    /\ date # None
    /\ date # OverflowError
    /\ Len(date) >= 7
    /\ date[Len(date) - 5] = "-"
    /\ date[Len(date) - 2] = "-"
    /\ IsDigitStr(SubSeq(date, Len(date) - 4, Len(date) - 3))
    /\ IsDigitStr(SubSeq(date, Len(date) - 1, Len(date)))

YearPart(date) == SubSeq(date, 1, Len(date) - 6)
MonthPart(date) == StrToNat(SubSeq(date, Len(date) - 4, Len(date) - 3))
DayPart(date) == StrToNat(SubSeq(date, Len(date) - 1, Len(date)))

\* The full month names, January first.
FullMonthNames ==
    <<<<"j", "a", "n", "u", "a", "r", "y">>,
      <<"f", "e", "b", "r", "u", "a", "r", "y">>,
      <<"m", "a", "r", "c", "h">>,
      <<"a", "p", "r", "i", "l">>,
      <<"m", "a", "y">>,
      <<"j", "u", "n", "e">>,
      <<"j", "u", "l", "y">>,
      <<"a", "u", "g", "u", "s", "t">>,
      <<"s", "e", "p", "t", "e", "m", "b", "e", "r">>,
      <<"o", "c", "t", "o", "b", "e", "r">>,
      <<"n", "o", "v", "e", "m", "b", "e", "r">>,
      <<"d", "e", "c", "e", "m", "b", "e", "r">>>>

\* The number of the month a text names in full or by its first three
\* letters, in any case and with blanks around it, or that a numeric string
\* in 1..12 gives; 0 when the text is neither.
MonthNamed(text) ==
    LET m == Lower(Strip(text))
        named == {k \in 1..12 :
                     m = FullMonthNames[k] \/ m = SubSeq(FullMonthNames[k], 1, 3)}
    IN  IF named # {} THEN CHOOSE k \in named : TRUE
        ELSE IF IsDigitStr(m) /\ Len(m) <= 2 /\ StrToNat(m) \in 1..12
             THEN StrToNat(m)
        ELSE 0

\* The day a numeric string in 1..31 gives, blanks around it allowed; 0 when
\* the text is no such string.
DayNamed(text) ==
    LET d == Strip(text)
    IN  IF IsDigitStr(d) /\ Len(d) <= 2 /\ StrToNat(d) \in 1..31
        THEN StrToNat(d) ELSE 0

MonthUnparseable(month) == month = None \/ MonthNamed(month) = 0
DayUnparseable(day) == day = None \/ DayNamed(day) = 0

\* C11: no date for an absent year; for a present year the result is a date
\* whose month is 06 when the month is absent or unparseable and whose day
\* is 15 when the day is absent or unparseable, so <year>-06-15 when both
\* are absent.
C11_DateDefaults ==
    pc = "returned" =>
        /\ ~arg.year.some => ret = None
        /\ arg.year.some =>
              /\ IsDateString(ret)
              /\ MonthUnparseable(arg.month) => MonthPart(ret) = 6
              /\ DayUnparseable(arg.day) => DayPart(ret) = 15
              /\ (arg.month = None /\ arg.day = None /\ ~arg.year.wide)
                    => ret = IntToStr(arg.year.val) \o <<"-", "0", "6", "-", "1", "5">>

\* The last valid day the clamping gives a month.
LastValidDay(m) ==
    IF m = 2 THEN 28 ELSE IF m \in {4, 6, 9, 11} THEN 30 ELSE 31

\* Whether day d exists in month m of year y of the calendar.
RealCalendarDate(y, m, d) ==
    /\ m \in 1..12
    /\ d >= 1
    /\ d <= (IF m = 2 THEN (IF y % 4 = 0 /\ (y % 100 # 0 \/ y % 400 = 0)
                            THEN 29 ELSE 28)
             ELSE IF m \in {4, 6, 9, 11} THEN 30 ELSE 31)

ParsedDay(day) == IF DayUnparseable(day) THEN 15 ELSE DayNamed(day)

\* C12: the call never fails; with a year given, the date returned has the
\* parsed day when (year, month, day) is a real calendar date, else the
\* last valid day of its month; the month is in 01..12 and the day exists
\* in that month.
C12_NeverFailsOnlyClamps ==
    pc = "returned" =>
        /\ ret # OverflowError
        /\ (IntTruthy(arg.year) /\ ~arg.year.wide) =>
              /\ IsDateString(ret)
              /\ MonthPart(ret) \in 1..12
              /\ DayPart(ret) =
                    IF RealCalendarDate(arg.year.val, MonthPart(ret),
                                        ParsedDay(arg.day))
                    THEN ParsedDay(arg.day)
                    ELSE LastValidDay(MonthPart(ret))
              /\ RealCalendarDate(arg.year.val, MonthPart(ret), DayPart(ret))

(***************************************************************************)
(* utils.py: the identifier extractors applied alone                       *)
(***************************************************************************)

\* The pieces the texts handed to the extractors are put together from.
FragDoiPrefix == <<"d", "o", "i", ":", " ">>
FragDoi == <<"1", "0", ".", "1", "2", "3", "4", "/", "a", "b", ".">>
FragShortDoi == <<"1", "0", ".", "1", "2", "/", "x">>
FragPmidPrefix == <<"p", "m", "i", "d", ":">>
FragSevenDigits == <<"1", "2", "3", "4", "5", "6", "7">>
FragTwoDigits == <<"8", "9">>
FragPmc == <<"p", "m", "c">>
FragArxivPrefix == <<"a", "r", "X", "i", "v", ":">>
FragArxivNew == <<"2", "3", "0", "1", ".", "1", "2", "3", "4", "5">>
FragVersionUpper == <<"V", "2">>
FragVersion == <<"v", "2">>
FragSubject == <<"h", "e", "p", "-", "t", "h", "/">>
FragSubjectLower == <<"m", "a", "t", "h", ".", "g", "t", "/">>

Fragments ==
    {FragDoiPrefix, FragDoi, FragShortDoi, FragPmidPrefix,
     FragSevenDigits, FragTwoDigits, FragPmc, FragArxivPrefix,
     FragArxivNew, FragVersionUpper, FragVersion, FragSubject,
     FragSubjectLower}

MaxFragments == 3

RECURSIVE Concat(_)
Concat(pieces) ==
    IF pieces = <<>> THEN <<>> ELSE Head(pieces) \o Concat(Tail(pieces))

ExtractTexts == {Concat(pieces) : pieces \in BoundedSeq(Fragments, MaxFragments)}

InitExtract ==
    /\ pc = "extract"
    /\ arg \in ExtractTexts
    /\ ret = None
    /\ citation_priority = Unused
    /\ entry = Unused
    /\ resolved = Unused
    /\ result = Unused
    /\ input_paths = Unused
    /\ all_entries = Unused
    /\ file_idx = Unused
    /\ conversion_results = Unused
    /\ batch_result = Unused
    /\ successful_citations = Unused
    /\ min_overlap_arg = Unused
    /\ arxiv_to_remove = Unused
    /\ marked = Unused
    /\ deduplicated = Unused
    /\ emitted = Unused

\* One call of an extractor on the text; ret is <<family, value returned>>.
Returns(family, value) ==
    /\ pc = "extract"
    /\ ret' = <<family, value>>
    /\ pc' = "extracted"
    /\ UNCHANGED <<citation_priority, entry, resolved, result, input_paths,
                   all_entries, file_idx, conversion_results, batch_result,
                   successful_citations, min_overlap_arg, arxiv_to_remove,
                   marked, deduplicated, emitted, arg>>

ExtractDoi == Returns(DOI, extract_doi(arg))
ExtractPmid == Returns(PMID, extract_pmid(arg))
ExtractPmcid == Returns(PMCID, extract_pmcid(arg))
ExtractArxivId == Returns(ARXIV, extract_arxiv_id(arg))

NextExtract == ExtractDoi \/ ExtractPmid \/ ExtractPmcid \/ ExtractArxivId

SpecExtract == InitExtract /\ [][NextExtract]_vars

\* doi: 10. + at least 4 digits + / + non-space characters.
DoiGrammar(v) ==
    \E n \in 4..Len(v) :
        /\ Len(v) >= n + 5
        /\ SubSeq(v, 1, 3) = <<"1", "0", ".">>
        /\ \A k \in 4..(n + 3) : v[k] \in Digits
        /\ v[n + 4] = "/"
        /\ \A k \in (n + 5)..Len(v) : v[k] \notin Whitespace

\* pmid: 7 or 8 digits.
PmidGrammar(v) == Len(v) \in {7, 8} /\ \A k \in 1..Len(v) : v[k] \in Digits

\* pmcid: PMC followed by digits.
PmcidGrammar(v) ==
    /\ Len(v) >= 4
    /\ SubSeq(v, 1, 3) = <<"P", "M", "C">>
    /\ \A k \in 4..Len(v) : v[k] \in Digits

\* arxiv, new style: NNNN.NNNN[N][vN].
ArxivNewGrammar(v) ==
    \E n \in {4, 5} :
        /\ Len(v) >= 5 + n
        /\ \A k \in 1..4 : v[k] \in Digits
        /\ v[5] = "."
        /\ \A k \in 6..(5 + n) : v[k] \in Digits
        /\ \/ Len(v) = 5 + n
           \/ /\ Len(v) >= 7 + n
              /\ v[6 + n] = "v"
              /\ \A k \in (7 + n)..Len(v) : v[k] \in Digits

\* arxiv, old style: subject[.XX]/NNNNNNN.
ArxivOldGrammar(v) ==
    \E a \in 1..Len(v) : \E x \in {0, 3} :
        /\ Len(v) = a + x + 8
        /\ \A k \in 1..a : v[k] \in LowerLetters \union {"-"}
        /\ x = 3 => /\ v[a + 1] = "."
                    /\ v[a + 2] \in UpperLetters
                    /\ v[a + 3] \in UpperLetters
        /\ v[a + x + 1] = "/"
        /\ \A k \in (a + x + 2)..Len(v) : v[k] \in Digits

FamilyGrammar(family, v) ==
    CASE family = DOI -> DoiGrammar(v)
      [] family = PMID -> PmidGrammar(v)
      [] family = PMCID -> PmcidGrammar(v)
      [] family = ARXIV -> ArxivNewGrammar(v) \/ ArxivOldGrammar(v)

\* C13: whatever text an extractor of the doi, pmid, pmcid and arxiv
\* families is given, it returns either no match or a value that satisfies
\* the validation grammar of its family.
C13_ExtractedSatisfiesGrammar ==
    pc = "extracted" =>
        \/ ret[2] = None
        \/ FamilyGrammar(ret[1], ret[2])

\* C13, its case: the prefixed pattern matches a candidate that fails the
\* validator, which is not returned; the value a later pattern matches and
\* the validator accepts is.
C13_Witness ==
    /\ pc = "extracted"
    /\ arg = FragArxivPrefix \o FragTwoDigits \o FragArxivNew
    /\ ret = <<ARXIV, FragArxivNew>>

(***************************************************************************)
(* utils.py: extract_isbn applied alone                                    *)
(***************************************************************************)

\* The pieces the texts handed to extract_isbn are put together from.
FragIsbnPrefix == <<"i", "s", "b", "n", ":", " ">>
FragIsbn978 == <<"9", "7", "8">>
FragNineDigits == <<"0", "3", "0", "6", "4", "0", "6", "1", "5">>
FragLowerX == <<"x">>
FragUpperX == <<"X">>
FragOneDigit == <<"1">>
FragHyphen == <<"-">>
FragBlank == <<" ">>

IsbnFragments ==
    {FragIsbnPrefix, FragIsbn978, FragNineDigits, FragLowerX,
     FragUpperX, FragOneDigit, FragHyphen, FragBlank}

IsbnTexts ==
    {Concat(pieces) : pieces \in BoundedSeq(IsbnFragments, MaxFragments)}

InitIsbn ==
    /\ pc = "extract_isbn"
    /\ arg \in IsbnTexts
    /\ ret = None
    /\ citation_priority = Unused
    /\ entry = Unused
    /\ resolved = Unused
    /\ result = Unused
    /\ input_paths = Unused
    /\ all_entries = Unused
    /\ file_idx = Unused
    /\ conversion_results = Unused
    /\ batch_result = Unused
    /\ successful_citations = Unused
    /\ min_overlap_arg = Unused
    /\ arxiv_to_remove = Unused
    /\ marked = Unused
    /\ deduplicated = Unused
    /\ emitted = Unused

\* One call extract_isbn(text).
ExtractIsbn ==
    /\ pc = "extract_isbn"
    /\ ret' = extract_isbn(arg)
    /\ pc' = "extracted_isbn"
    /\ UNCHANGED <<citation_priority, entry, resolved, result, input_paths,
                   all_entries, file_idx, conversion_results, batch_result,
                   successful_citations, min_overlap_arg, arxiv_to_remove,
                   marked, deduplicated, emitted, arg>>

NextIsbn == ExtractIsbn

SpecIsbn == InitIsbn /\ [][NextIsbn]_vars

\* isbn: exactly 13 digits, or 10 characters of which the first 9 are digits
\* and the last is a digit or the upper-case letter X.
IsbnGrammar(v) ==
    \/ Len(v) = 13 /\ \A k \in 1..13 : v[k] \in Digits
    \/ /\ Len(v) = 10
       /\ \A k \in 1..9 : v[k] \in Digits
       /\ v[10] \in Digits \union {"X"}

IsDigitOrX(c) == c \in Digits \union {"X"}

\* The text in upper case with everything but digits and X taken out.
StrippedIsbn(text) == SelectSeq(Upper(text), IsDigitOrX)

\* C14: extract_isbn returns no match or a value of the ISBN form, and
\* returns the stripped text itself, without trying the fallback patterns,
\* when that is of the ISBN form.
C14_IsbnForm ==
    pc = "extracted_isbn" =>
        /\ ret = None \/ IsbnGrammar(ret)
        /\ IsbnGrammar(StrippedIsbn(arg)) => ret = StrippedIsbn(arg)

(***************************************************************************)
(* SpecCitation: convert_entry on records of every identifier family       *)
(***************************************************************************)

\* A record key as bibliographic databases export them, with a colon.
KeyWithColon == <<"s", "m", "i", "t", "h", ":", "2", "0", "2", "0">>
AuthorsTwo ==
    <<"J", "o", "h", "n", " ", "D", "o", "e", " ", "a", "n", "d", " ", "J",
      "a", "n", "e", " ", "S", "m", "i", "t", "h">>

\* The identifier fields of a record: none, one of each family, or two.
CitationIdentifiers ==
    {EmptyDict, "doi" :> PrefixedDoi, "pmid" :> ValidPmidText,
     "pmcid" :> ValidPmcidText, "eprint" :> ValidArxivText,
     "isbn" :> ValidIsbnText, "url" :> ValidUrl,
     ("doi" :> PrefixedDoi) @@ ("url" :> ValidUrl)}

CitationMetadata ==
    [title |-> {None, TitleGraphs},
     author |-> {None, AuthorsTwo},
     year |-> {None, Year2020, YearZero, YearTooWide},
     journal |-> {None, JournalNature}]

CitationRecords ==
    {BibTeXEntry(k, "article", f @@ g) :
        k \in {<<>>, KeySmith, KeyWithColon},
        f \in CitationIdentifiers, g \in OptionalDicts(CitationMetadata)}

InitCitation ==
    /\ pc = "convert_entry"
    /\ citation_priority \in EntryPriorities
    /\ entry \in CitationRecords
    /\ resolved = Unused
    /\ result = Unused
    /\ input_paths = Unused
    /\ all_entries = Unused
    /\ file_idx = Unused
    /\ conversion_results = Unused
    /\ batch_result = Unused
    /\ successful_citations = Unused
    /\ min_overlap_arg = Unused
    /\ arxiv_to_remove = Unused
    /\ marked = Unused
    /\ deduplicated = Unused
    /\ emitted = Unused
    /\ arg = Unused
    /\ ret = Unused

SpecCitation == InitCitation /\ [][NextEntry]_vars

\* convert_entry has returned a citation.
CitationBuilt ==
    pc = "converted" /\ "manubot_citation" \in DOMAIN result

\* The positions of the colons of a string.
Colons(s) == {k \in 1..Len(s) : s[k] = ":"}

\* C15 as stated: the id of every citation convert_entry builds contains
\* exactly one colon.
C15_ExactlyOneColon ==
    CitationBuilt => Cardinality(Colons(result.manubot_citation.id)) = 1

\* C15: the id of every citation convert_entry builds contains exactly one
\* colon more than its identifier value, the separating one; it contains
\* exactly one colon when the family is pmid, pmcid, arxiv or isbn, whose
\* values contain none.
C15_OneSeparatingColon ==
    CitationBuilt =>
        LET citation == result.manubot_citation
        IN  /\ Cardinality(Colons(citation.id))
                  = 1 + Cardinality(Colons(citation.identifier))
            /\ citation.citation_type \in {PMID, PMCID, ARXIV, ISBN}
                  => Cardinality(Colons(citation.id)) = 1

\* C15, its case: a record without identifier fields whose key contains a
\* colon becomes a raw citation whose id has two colons.
C15_Witness ==
    /\ CitationBuilt
    /\ entry.key = KeyWithColon
    /\ result.manubot_citation.citation_type = RAW
    /\ Cardinality(Colons(result.manubot_citation.id)) = 2

\* The seven identifier families.
Families == {DOI, PMID, PMCID, ARXIV, ISBN, URL, RAW}

\* The part of a string before its first colon.
BeforeFirstColon(s) ==
    IF Colons(s) = {} THEN s
    ELSE SubSeq(s, 1, (CHOOSE k \in Colons(s) : \A j \in Colons(s) : k <= j) - 1)

\* C16: the id of every citation convert_entry builds is its family, a
\* colon and the identifier the resolver returned; the part of the id before
\* the first colon is the citation's family, one of the seven.
C16_IdIsFamilyColonValue ==
    CitationBuilt =>
        LET citation == result.manubot_citation
        IN  /\ citation.citation_type = resolved[1]
            /\ citation.identifier = resolved[2]
            /\ citation.id = resolved[1] \o <<":">> \o resolved[2]
            /\ BeforeFirstColon(citation.id) = citation.citation_type
            /\ citation.citation_type \in Families

\* C16, its case: a record with a valid URL and no other identifier becomes
\* the citation url:https://a.org/p, whose family stands before the first
\* colon.
C16_Witness ==
    /\ CitationBuilt
    /\ citation_priority = DefaultPriority
    /\ "url" \in DOMAIN entry
    /\ "doi" \notin DOMAIN entry
    /\ result.manubot_citation.citation_type = URL
    /\ result.manubot_citation.id = URL \o <<":">> \o ValidUrl

\* The warning owed to each absent field among title, authors and year, in
\* that order.
WarningsOwed(ent) ==
    (IF "title" \notin DOMAIN ent THEN <<"No title found">> ELSE <<>>)
    \o (IF "authors" \notin DOMAIN ent THEN <<"No authors found">> ELSE <<>>)
    \o (IF ~ent.year.some THEN <<"No publication year found">> ELSE <<>>)

\* C17: whenever the resolver returns an identifier, convert_entry returns
\* success with a citation, no errors, and exactly the warnings owed to the
\* absent fields among title, authors and year.
C17_WarningsNeverBlock ==
    (pc = "converted" /\ resolved # NoIdentifier) =>
        /\ result.success
        /\ "manubot_citation" \in DOMAIN result
        /\ result.errors = <<>>
        /\ result.warnings = WarningsOwed(entry)

(***************************************************************************)
(* SpecNormalize: BibTeXEntry built from one raw author or year field      *)
(***************************************************************************)

\* The pieces the author fields are put together from.
FragLastFirst == <<"D", "o", "e", ",", " ", "J", "o", "h", "n">>
FragFirstLast == <<"J", "a", "n", "e", " ", "S", "m", "i", "t", "h">>
FragAnd == <<" ", "a", "n", "d", " ">>
FragUpperAnd == <<" ", "A", "N", "D", " ">>
FragCapitalAnd == <<" ", "A", "n", "d", " ">>
FragComma == <<",">>
FragAndNoBlank == <<"a", "n", "d">>

AuthorFragments ==
    {FragLastFirst, FragFirstLast, FragAnd, FragUpperAnd,
     FragCapitalAnd, FragComma, FragAndNoBlank,
     FragBlank}

AuthorTexts ==
    {Concat(pieces) : pieces \in BoundedSeq(AuthorFragments, MaxFragments)}

\* Year fields besides those above: signed, padded, with separators or letters.
YearPlus2020 == <<"+", "2", "0", "2", "0">>
YearPadded == <<" ", "2", "0", "2", "0", " ">>
YearUnderscore == <<"2", "_", "0">>
YearLetters == <<"2", "0", "a">>
YearRange == <<"2", "0", "2", "0", "-", "2", "1">>

YearTexts ==
    {<<>>, Year2020, YearZero, YearMinus5, YearTooWide, YearPlus2020,
     YearPadded, YearUnderscore, YearLetters, YearRange}

\* The raw fields of the records: an author field, a year field, or none.
RawFieldDicts ==
    {EmptyDict} \union {"author" :> a : a \in AuthorTexts}
                \union {"year" :> y : y \in YearTexts}

InitNormalize ==
    /\ pc = "normalize"
    /\ arg \in RawFieldDicts
    /\ entry = None
    /\ ret = Unused
    /\ citation_priority = Unused
    /\ resolved = Unused
    /\ result = Unused
    /\ input_paths = Unused
    /\ all_entries = Unused
    /\ file_idx = Unused
    /\ conversion_results = Unused
    /\ batch_result = Unused
    /\ successful_citations = Unused
    /\ min_overlap_arg = Unused
    /\ arxiv_to_remove = Unused
    /\ marked = Unused
    /\ deduplicated = Unused
    /\ emitted = Unused

\* BibTeXEntry(key='smith2020', entry_type='article', fields=arg)
Normalize ==
    /\ pc = "normalize"
    /\ entry' = BibTeXEntry(KeySmith, "article", arg)
    /\ pc' = "normalized"
    /\ UNCHANGED <<citation_priority, resolved, result, input_paths,
                   all_entries, file_idx, conversion_results, batch_result,
                   successful_citations, min_overlap_arg, arxiv_to_remove,
                   marked, deduplicated, emitted, arg, ret>>

NextNormalize == Normalize

SpecNormalize == InitNormalize /\ [][NextNormalize]_vars

\* Whether the word 'and', in any case, stands at position p of s between
\* whitespace: where the whitespace after it ends, or 0.
AndTokenEnd(s, p) ==
    IF /\ p + 4 <= Len(s)
       /\ s[p] \in Whitespace
       /\ (p = 1 \/ s[p - 1] \notin Whitespace)
       /\ \E a \in (p + 1)..(Len(s) - 3) :
             /\ \A k \in p..(a - 1) : s[k] \in Whitespace
             /\ Lower(SubSeq(s, a, a + 2)) = <<"a", "n", "d">>
             /\ s[a + 3] \in Whitespace
    THEN LET a == CHOOSE a \in (p + 1)..(Len(s) - 3) :
                      /\ \A k \in p..(a - 1) : s[k] \in Whitespace
                      /\ Lower(SubSeq(s, a, a + 2)) = <<"a", "n", "d">>
                      /\ s[a + 3] \in Whitespace
         IN  CHOOSE e \in (a + 4)..(Len(s) + 1) :
                 /\ \A k \in (a + 3)..(e - 1) : s[k] \in Whitespace
                 /\ (e = Len(s) + 1 \/ s[e] \notin Whitespace)
    ELSE 0

\* The segments between the 'and' tokens of s, from left to right.
RECURSIVE SegmentsOf(_)
SegmentsOf(s) ==
    LET tokens == {p \in 1..Len(s) : AndTokenEnd(s, p) # 0}
    IN  IF tokens = {} THEN <<s>>
        ELSE LET p == CHOOSE q \in tokens : \A r \in tokens : q <= r
             IN  <<SubSeq(s, 1, p - 1)>>
                     \o SegmentsOf(SubSeq(s, AndTokenEnd(s, p), Len(s)))

\* 'Last, First' as 'First Last'; a segment without a comma as it is.
FirstLast(segment) ==
    LET commas == {k \in 1..Len(segment) : segment[k] = ","}
    IN  IF commas = {} THEN segment
        ELSE LET c == CHOOSE k \in commas : \A j \in commas : k <= j
             IN  Strip(SubSeq(segment, c + 1, Len(segment))) \o <<" ">>
                     \o Strip(SubSeq(segment, 1, c - 1))

NotEmpty(s) == s # <<>>

\* The authors the author string stands for: its segments trimmed, the
\* empty ones dropped, each as 'First Last', in their order.
ExpectedAuthors(text) ==
    LET segments == SegmentsOf(text)
        trimmed == [k \in DOMAIN segments |-> Strip(segments[k])]
        kept == SelectSeq(trimmed, NotEmpty)
    IN  [k \in DOMAIN kept |-> FirstLast(kept[k])]

\* C18: the authors of the normalized record are the segments of the author
\* string between the tokens 'and', 'And', 'AND', trimmed, the empty ones
\* dropped, 'Last, First' turned into 'First Last', in their order.
C18_SplitAtAndAnyCase ==
    (pc = "normalized" /\ "author" \in DOMAIN arg) =>
        /\ "authors" \in DOMAIN entry
        /\ entry.authors = ExpectedAuthors(arg.author)

\* C19: the authors attribute of the normalized record is absent, or a
\* non-empty list of names each non-blank after trimming.
C19_AuthorsAbsentOrNonBlank ==
    (pc = "normalized" /\ "authors" \in DOMAIN entry) =>
        /\ entry.authors # <<>>
        /\ \A k \in DOMAIN entry.authors : Strip(entry.authors[k]) # <<>>

\* A string composed entirely of digits.
AllDigits(text) == text # <<>> /\ \A k \in 1..Len(text) : text[k] \in Digits

\* C20: the normalized record has a year exactly when the year string is
\* composed entirely of digits; any other year string leaves it absent.
C20_YearOnlyFromDigits ==
    (pc = "normalized" /\ "year" \in DOMAIN arg) =>
        (entry.year.some <=> AllDigits(arg.year))

(***************************************************************************)
(* SpecTwice: batch_convert run twice on the same sources                  *)
(***************************************************************************)

\* The sources of a batch that is converted twice, and their entries,
\* together number at most MaxRerunSize.
MaxRerunSize == 4

RerunBatches ==
    {[i \in DOMAIN b |-> [path |-> PathOf(i), parseable |-> b[i].parseable,
                          entries |-> b[i].entries]] :
        b \in BatchesUpTo(MaxRerunSize)}

\* arg counts the runs; ret keeps the citations the first run wrote.
InitTwice ==
    /\ pc = "parse"
    /\ citation_priority \in EntryPriorities
    /\ input_paths \in RerunBatches
    /\ file_idx = 1
    /\ all_entries = <<>>
    /\ conversion_results = <<>>
    /\ entry = None
    /\ resolved = Unused
    /\ result = None
    /\ batch_result = None
    /\ successful_citations = <<>>
    /\ min_overlap_arg = DefaultMinOverlap
    /\ arxiv_to_remove = {}
    /\ marked = {}
    /\ deduplicated = <<>>
    /\ emitted = <<>>
    /\ arg = 1
    /\ ret = <<>>

\* A second run that goes on with the entries of the first: all_entries is
\* not emptied.
RunAgainKeepingEntries ==
    /\ pc = "done"
    /\ arg = 1
    /\ arg' = 2
    /\ ret' = emitted
    /\ pc' = "parse"
    /\ file_idx' = 1
    /\ conversion_results' = <<>>
    /\ UNCHANGED <<citation_priority, input_paths, all_entries, entry,
                   resolved, result, batch_result, successful_citations,
                   min_overlap_arg, arxiv_to_remove, marked, deduplicated,
                   emitted>>

\* batch_convert(input_paths, output_path) called again on the same
\* converter: all_entries and conversion_results start empty, and the other
\* locals are written before they are read.
RunAgain ==
    /\ pc = "done"
    /\ arg = 1
    /\ arg' = 2
    /\ ret' = emitted
    /\ pc' = "parse"
    /\ file_idx' = 1
    /\ all_entries' = <<>>
    /\ conversion_results' = <<>>
    /\ UNCHANGED <<citation_priority, input_paths, entry, resolved, result,
                   batch_result, successful_citations, min_overlap_arg,
                   arxiv_to_remove, marked, deduplicated, emitted>>

NextTwice == Next \/ RunAgain

SpecTwice == InitTwice /\ [][NextTwice]_vars

YearFalsy(citation) == "year" \notin DOMAIN citation \/ citation.year = 0

\* The errors of the i-th citation; a message is the citation's number and
\* the text after "Citation <i>: ", the id quoted in it apart.
CitationErrors(citation, i) ==
    LET citation_id == IF "id" \in DOMAIN citation THEN citation.id ELSE <<>>
        citation_type ==
            IF "type" \in DOMAIN citation THEN citation.type ELSE <<>>
    IN  (IF citation_id = <<>> THEN << <<i, "Missing 'id' field">> >>
         ELSE IF \A k \in 1..Len(citation_id) : citation_id[k] # ":"
              THEN << <<i, "Invalid ID format", citation_id>> >>
         ELSE <<>>)
        \o (IF citation_type = <<>> THEN << <<i, "Missing 'type' field">> >>
            ELSE <<>>)

\* The warnings of the i-th citation.
CitationWarnings(citation, i) ==
    (IF ~Truthy(Get(citation, "title")) THEN << <<i, "Missing title">> >>
     ELSE <<>>)
    \o (IF ~Truthy(Get(citation, "authors"))
        THEN << <<i, "Missing authors">> >> ELSE <<>>)
    \o (IF YearFalsy(citation) THEN << <<i, "Missing year">> >> ELSE <<>>)

\* The messages of the citations from the i-th on, in the order of the loop.
RECURSIVE MessagesFrom(_, _, _)
MessagesFrom(citations, i, warnings) ==
    IF i > Len(citations) THEN <<>>
    ELSE (IF warnings THEN CitationWarnings(citations[i], i)
          ELSE CitationErrors(citations[i], i))
         \o MessagesFrom(citations, i + 1, warnings)

\* validation_result['errors'] after the loop.
ValidationErrors(citations) == MessagesFrom(citations, 1, FALSE)

\* validate_manubot_format(yaml_path), citations being the list
\* yaml.safe_load returns.
validate_manubot_format(citations) ==
    LET types == {citations[i].type :
                     i \in {j \in DOMAIN citations :
                               Truthy(Get(citations[j], "type"))}}
    IN  [valid |-> ValidationErrors(citations) = <<>>,
         errors |-> ValidationErrors(citations),
         warnings |-> MessagesFrom(citations, 1, TRUE),
         citation_count |-> Len(citations),
         citation_types |->
            [ty \in types |->
                Cardinality({i \in DOMAIN citations :
                                Get(citations[i], "type") = ty})]]

(***************************************************************************)
(* SpecValidate: validate_manubot_format applied alone                     *)
(***************************************************************************)

\* The ids of the loaded citations.
IdUrl ==
    <<"u", "r", "l", ":", "h", "t", "t", "p", "s", ":", "/", "/", "a", ".",
      "o", "r", "g", "/", "p">>
IdNoColon == <<"s", "m", "i", "t", "h", "2", "0", "2", "0">>
AuthorDoe == <<"J", "o", "h", "n", " ", "D", "o", "e">>

ValidatedIds ==
    {EmptyDict, "id" :> <<>>, "id" :> FragBlank, "id" :> IdNoColon,
     "id" :> IdA, "id" :> IdUrl}

ValidatedTypes ==
    {EmptyDict, "type" :> <<>>, "type" :> FragBlank, "type" :> DOI}

ValidatedTitles == {EmptyDict, "title" :> TitleLowerA}
ValidatedAuthors ==
    {EmptyDict, "authors" :> <<>>, "authors" :> <<AuthorDoe>>}
ValidatedYears == {EmptyDict, "year" :> 0, "year" :> 2020}

\* The loaded citations: every id with every type under full metadata, and
\* every choice of metadata under a well-formed id and type.
ValidatedCitations ==
    {i @@ ty @@ ("title" :> TitleLowerA) @@ ("authors" :> <<AuthorDoe>>)
       @@ ("year" :> 2020) : i \in ValidatedIds, ty \in ValidatedTypes}
    \union
    {("id" :> IdA) @@ ("type" :> DOI) @@ ti @@ au @@ ye :
        ti \in ValidatedTitles, au \in ValidatedAuthors, ye \in ValidatedYears}

\* The longest citation list validated.
MaxValidated == 2

InitValidate ==
    /\ pc = "validate"
    /\ arg \in BoundedSeq(ValidatedCitations, MaxValidated)
    /\ ret = None
    /\ citation_priority = Unused
    /\ entry = Unused
    /\ resolved = Unused
    /\ result = Unused
    /\ input_paths = Unused
    /\ all_entries = Unused
    /\ file_idx = Unused
    /\ conversion_results = Unused
    /\ batch_result = Unused
    /\ successful_citations = Unused
    /\ min_overlap_arg = Unused
    /\ arxiv_to_remove = Unused
    /\ marked = Unused
    /\ deduplicated = Unused
    /\ emitted = Unused

\* One call validate_manubot_format(yaml_path) on a file holding arg.
Validate ==
    /\ pc = "validate"
    /\ ret' = validate_manubot_format(arg)
    /\ pc' = "validated"
    /\ UNCHANGED <<citation_priority, entry, resolved, result, input_paths,
                   all_entries, file_idx, conversion_results, batch_result,
                   successful_citations, min_overlap_arg, arxiv_to_remove,
                   marked, deduplicated, emitted, arg>>

NextValidate == Validate

SpecValidate == InitValidate /\ [][NextValidate]_vars

\* A non-blank id with exactly one colon and a non-blank type.
WellFormedCitation(citation) ==
    /\ "id" \in DOMAIN citation
    /\ Strip(citation.id) # <<>>
    /\ Cardinality(Colons(citation.id)) = 1
    /\ "type" \in DOMAIN citation
    /\ Strip(citation.type) # <<>>

\* C22: the list is reported valid exactly when every citation has a
\* non-blank id with exactly one colon and a non-blank type; a citation
\* without them has an error naming it; a citation without title, authors
\* or year has a warning and no error for that.
C22_ValidOnlyIfWellFormed ==
    pc = "validated" =>
        /\ ret.valid <=> \A i \in DOMAIN arg : WellFormedCitation(arg[i])
        /\ \A i \in DOMAIN arg :
              ~WellFormedCitation(arg[i])
                  => \E k \in DOMAIN ret.errors : ret.errors[k][1] = i
        /\ \A i \in DOMAIN arg :
              (~Truthy(Get(arg[i], "title")) \/ ~Truthy(Get(arg[i], "authors"))
                    \/ YearFalsy(arg[i]))
                  => \E k \in DOMAIN ret.warnings : ret.warnings[k][1] = i

(***************************************************************************)
(* SpecEmit: convert_entry, to_dict and validate_manubot_format in a row   *)
(***************************************************************************)

\* The booktitle of a conference paper.
VenueNeurips == <<"N", "e", "u", "r", "I", "P", "S">>

EmitIdentifiers ==
    {EmptyDict, "doi" :> PrefixedDoi, "eprint" :> ValidArxivText,
     "url" :> ValidUrl}

EmitMetadata ==
    [title |-> {None, TitleGraphs},
     author |-> {None, AuthorsTwo},
     year |-> {None, Year2020, YearZero},
     journal |-> {None, JournalNature},
     booktitle |-> {None, VenueNeurips}]

EmitRecords ==
    {BibTeXEntry(k, "article", f @@ g) :
        k \in {<<>>, KeySmith, KeyWithColon},
        f \in EmitIdentifiers, g \in OptionalDicts(EmitMetadata)}

\* arg is output.include_metadata of the configuration.
InitEmit ==
    /\ pc = "convert_entry"
    /\ citation_priority \in {DefaultPriority, <<>>}
    /\ entry \in EmitRecords
    /\ arg \in BOOLEAN
    /\ emitted = <<>>
    /\ ret = None
    /\ resolved = Unused
    /\ result = Unused
    /\ input_paths = Unused
    /\ all_entries = Unused
    /\ file_idx = Unused
    /\ conversion_results = Unused
    /\ batch_result = Unused
    /\ successful_citations = Unused
    /\ min_overlap_arg = Unused
    /\ arxiv_to_remove = Unused
    /\ marked = Unused
    /\ deduplicated = Unused

\* save_yaml: result.manubot_citation.to_dict(include_metadata) of a
\* successful outcome, written as the only citation of the file.
ToDict ==
    /\ pc = "converted"
    /\ result.success
    /\ "manubot_citation" \in DOMAIN result
    /\ emitted' = <<to_dict(result.manubot_citation, arg)>>
    /\ pc' = "to_dict"
    /\ UNCHANGED <<citation_priority, entry, resolved, result, input_paths,
                   all_entries, file_idx, conversion_results, batch_result,
                   successful_citations, min_overlap_arg, arxiv_to_remove,
                   marked, deduplicated, arg, ret>>

\* validate_manubot_format on the file written.
ValidateEmitted ==
    /\ pc = "to_dict"
    /\ ret' = validate_manubot_format(emitted)
    /\ pc' = "validated"
    /\ UNCHANGED <<citation_priority, entry, resolved, result, input_paths,
                   all_entries, file_idx, conversion_results, batch_result,
                   successful_citations, min_overlap_arg, arxiv_to_remove,
                   marked, deduplicated, emitted, arg>>

NextEmit == ConvertEntry \/ ToDict \/ ValidateEmitted

SpecEmit == InitEmit /\ [][NextEmit]_vars

\* The attribute of the citation each name of the field map carries.
CarriedBy ==
    [title |-> "title", authors |-> "authors", publisher |-> "journal",
     date |-> "date", link |-> "link"]

\* C23: the field map of a citation has id and type, no names but id, type,
\* title, authors, publisher, year, date, link; publisher carries the
\* citation's journal or venue and link the record's URL; an optional name
\* is there only when the citation has a value for it; with metadata
\* disabled the names are id and type alone.
C23_FieldMapShape ==
    pc \in {"to_dict", "validated"} =>
        LET fields == emitted[1]
            citation == result.manubot_citation
        IN  /\ {"id", "type"} \subseteq DOMAIN fields
            /\ DOMAIN fields \subseteq
                  {"id", "type", "title", "authors", "publisher", "year",
                   "date", "link"}
            /\ fields.id = citation.id
            /\ fields.type = citation.citation_type
            /\ \A k \in DOMAIN fields \cap DOMAIN CarriedBy :
                  /\ CarriedBy[k] \in DOMAIN citation
                  /\ fields[k] = citation[CarriedBy[k]]
            /\ "year" \in DOMAIN fields =>
                  (citation.year.some /\ fields.year = citation.year.val)
            /\ "publisher" \in DOMAIN fields =>
                  fields.publisher =
                      IF "journal" \in DOMAIN entry
                      THEN clean_bibtex_field(entry.journal)
                      ELSE clean_bibtex_field(entry.booktitle)
            /\ "link" \in DOMAIN fields => fields.link = entry.url
            /\ ~arg => DOMAIN fields = {"id", "type"}

\* C23, its case: a conference paper with a URL and metadata enabled; its
\* venue is carried as publisher and its URL as link.
C23_Witness ==
    /\ pc = "to_dict"
    /\ arg
    /\ "journal" \notin DOMAIN entry
    /\ DOMAIN emitted[1] =
          {"id", "type", "title", "authors", "publisher", "year", "date",
           "link"}
    /\ emitted[1].publisher = VenueNeurips
    /\ emitted[1].link = ValidUrl

\* C30: the field map of every successful conversion, with or without
\* metadata, is reported valid with no error by validate_manubot_format.
C30_EmittedIsAccepted ==
    pc = "validated" => (ret.valid /\ ret.errors = <<>>)

\* C30, its case: a record without identifier fields and with a key that
\* holds a colon, written without metadata and reported valid.
C30_Witness ==
    /\ pc = "validated"
    /\ ~arg
    /\ emitted = <<[id |-> RAW \o <<":">> \o KeyWithColon, type |-> RAW]>>
    /\ ret.valid
    /\ ret.citation_count = 1

(***************************************************************************)
(* SpecArxiv: convert_entry on records with arxiv and eprint fields        *)
(***************************************************************************)

\* An arXiv id of the old style, for the eprint field.
OldStyleArxiv ==
    <<"h", "e", "p", "-", "t", "h", "/", "9", "9", "0", "1", "0", "0", "1">>

\* The raw fields of the records: arg keeps them beside the record.
ArxivFields ==
    OptionalDicts([arxiv |-> {None, <<>>, FragBlank, ValidArxivText},
                   eprint |-> {None, <<>>, OldStyleArxiv},
                   doi |-> {None, PrefixedDoi}])

InitArxiv ==
    /\ pc = "convert_entry"
    /\ citation_priority \in EntryPriorities
    /\ arg \in ArxivFields
    /\ entry \in {BibTeXEntry(k, "article", arg) : k \in {<<>>, KeySmith}}
    /\ ret = Unused
    /\ resolved = Unused
    /\ result = Unused
    /\ input_paths = Unused
    /\ all_entries = Unused
    /\ file_idx = Unused
    /\ conversion_results = Unused
    /\ batch_result = Unused
    /\ successful_citations = Unused
    /\ min_overlap_arg = Unused
    /\ arxiv_to_remove = Unused
    /\ marked = Unused
    /\ deduplicated = Unused
    /\ emitted = Unused

SpecArxiv == InitArxiv /\ [][NextEntry]_vars

\* C24 as stated: the arXiv candidate of the record is its arxiv field
\* whenever that field is present.
C24_ArxivFieldWhenPresent ==
    "arxiv" \in DOMAIN arg =>
        ("arxiv" \in DOMAIN entry /\ entry.arxiv = arg.arxiv)

\* C24: the arXiv candidate of the record is its arxiv field when that is
\* present and not empty, and otherwise its eprint field; under the default
\* priority list a record whose only identifier is a valid arXiv id in
\* eprint becomes the citation arxiv:<id>.
C24_ArxivElseEprint ==
    /\ ("arxiv" \in DOMAIN arg /\ arg.arxiv # <<>>)
          => ("arxiv" \in DOMAIN entry /\ entry.arxiv = arg.arxiv)
    /\ ("arxiv" \notin DOMAIN arg \/ arg.arxiv = <<>>)
          => IF "eprint" \in DOMAIN arg
             THEN "arxiv" \in DOMAIN entry /\ entry.arxiv = arg.eprint
             ELSE "arxiv" \notin DOMAIN entry
    /\ (/\ pc = "converted"
        /\ citation_priority = DefaultPriority
        /\ DOMAIN arg = {"eprint"}
        /\ arg.eprint = OldStyleArxiv)
          => /\ resolved = <<ARXIV, OldStyleArxiv>>
             /\ result.success
             /\ result.manubot_citation.citation_type = ARXIV
             /\ result.manubot_citation.id = ARXIV \o <<":">> \o OldStyleArxiv

\* C24, its case: an empty arxiv field beside a valid eprint field; the
\* citation is made from the eprint field.
C24_Witness ==
    /\ pc = "converted"
    /\ citation_priority = DefaultPriority
    /\ arg = [arxiv |-> <<>>, eprint |-> OldStyleArxiv]
    /\ result.success
    /\ result.manubot_citation.id = ARXIV \o <<":">> \o OldStyleArxiv

(***************************************************************************)
(* Claims about the order of the steps of a batch                          *)
(***************************************************************************)

\* Every source has been read and every entry converted, and the citations
\* collected are those of all successful outcomes.
AllMerged ==
    /\ file_idx = Len(input_paths) + 1
    /\ Len(all_entries) = Len(Owed(input_paths))
    /\ Len(conversion_results) = Len(all_entries)
    /\ Len(successful_citations) = CountSuccess(conversion_results, TRUE)

\* The kept citations are the collected ones without the removed ones, in
\* their order.
DuplicatesRemoved ==
    /\ Len(deduplicated) <= Len(successful_citations)
    /\ \A i \in DOMAIN deduplicated :
          \E j \in DOMAIN successful_citations :
              deduplicated[i] = successful_citations[j]
    /\ \A j \in DOMAIN successful_citations :
          successful_citations[j].id \notin arxiv_to_remove
              => \E i \in DOMAIN deduplicated :
                    deduplicated[i] = successful_citations[j]

\* C25: in every run the step that removes duplicates is taken only when
\* the citations of all sources have been converted and merged, and the
\* sorting step only when duplicate removal has finished, on its result.
C25_DedupeBatchWideThenSort ==
    [][/\ (pc = "dedupe" /\ pc' # "dedupe") => (AllMerged /\ pc' = "sort")
       /\ (pc' = "dedupe" /\ pc # "dedupe") => (pc = "save_yaml" /\ AllMerged')
       /\ pc' = "sort" => (pc \in {"dedupe", "sort"} /\ DuplicatesRemoved')
       /\ (pc = "sort" /\ pc' # "sort")
             => (pc' = "done" /\ DuplicatesRemoved /\ AllMerged
                 /\ Len(emitted') = Len(deduplicated))]_vars

\* C25, its case: the preprint is the only entry of the first source and
\* the published paper the only entry of the second; the preprint is
\* removed and the published paper alone is written.
C25_Witness ==
    /\ pc = "done"
    /\ Len(input_paths) = 2
    /\ input_paths[1].entries = <<RawPreprint>>
    /\ input_paths[2].entries = <<RawPublished>>
    /\ Len(successful_citations) = 2
    /\ Len(emitted) = 1
    /\ emitted[1].title = TitlePublished

(***************************************************************************)
(* The title overlap on its own: _find_title_overlap applied to pairs of   *)
(* titles put together from a few pieces with capitals, separators and     *)
(* words that run together when no separator stands between them.          *)
(***************************************************************************)

MaxTitlePieces == 3

\* A capitalised word and its lower-case form, each with its separator, a
\* word with none, and punctuation.
PieceUpper == <<"A", "b", " ">>
PieceLower == <<"a", "b", "-">>
PieceBare == <<"c">>
PieceComma == <<",", " ">>

TitlePieces == {PieceUpper, PieceLower, PieceBare, PieceComma}

TitleTexts == {Concat(pieces) : pieces \in BoundedSeq(TitlePieces, MaxTitlePieces)}

InitOverlap ==
    /\ pc = "_find_title_overlap"
    /\ arg \in TitleTexts \X TitleTexts
    /\ ret = None
    /\ citation_priority = Unused
    /\ entry = Unused
    /\ resolved = Unused
    /\ result = Unused
    /\ input_paths = Unused
    /\ all_entries = Unused
    /\ file_idx = Unused
    /\ conversion_results = Unused
    /\ batch_result = Unused
    /\ successful_citations = Unused
    /\ min_overlap_arg = Unused
    /\ arxiv_to_remove = Unused
    /\ marked = Unused
    /\ deduplicated = Unused
    /\ emitted = Unused

\* One call self._find_title_overlap(title1, title2).
FindTitleOverlap ==
    /\ pc = "_find_title_overlap"
    /\ ret' = _find_title_overlap(arg[1], arg[2])
    /\ pc' = "returned"
    /\ UNCHANGED <<citation_priority, entry, resolved, result, input_paths,
                   all_entries, file_idx, conversion_results, batch_result,
                   successful_citations, min_overlap_arg, arxiv_to_remove,
                   marked, deduplicated, emitted, arg>>

NextOverlap == FindTitleOverlap

SpecOverlap == InitOverlap /\ [][NextOverlap]_vars

\* The word tokens of a title, as the places they occupy: the stretches
\* a..b of word characters with no word character on either side.
TokenPlaces(title) ==
    {p \in (1..Len(title)) \X (1..Len(title)) :
        /\ p[1] <= p[2]
        /\ \A k \in p[1]..p[2] : IsWordChar(title[k])
        /\ ~IsWordChar(At(title, p[1] - 1))
        /\ ~IsWordChar(At(title, p[2] + 1))}

\* The tokens of the title in their order, lower-cased.
Tokens(title) ==
    LET places == TokenPlaces(title)
    IN  [k \in 1..Cardinality(places) |->
            LET p == CHOOSE q \in places :
                         Cardinality({r \in places : r[1] < q[1]}) = k - 1
            IN  Lower(SubSeq(title, p[1], p[2]))]

\* Words i+1 .. i+n of the first sequence are words j+1 .. j+n of the second.
RunMatches(words1, words2, i, j, n) ==
    /\ i + n <= Len(words1)
    /\ j + n <= Len(words2)
    /\ \A d \in 1..n : words1[i + d] = words2[j + d]

\* Some run of n consecutive words is common to the two sequences.
HasCommonRun(words1, words2, n) ==
    \E i \in 0..Len(words1), j \in 0..Len(words2) :
        RunMatches(words1, words2, i, j, n)

\* The length of the longest run of consecutive tokens the two titles share.
LongestCommonRun(title1, title2) ==
    LET words1 == Tokens(title1)
        words2 == Tokens(title2)
    IN  CHOOSE n \in 0..Len(words1) :
            /\ HasCommonRun(words1, words2, n)
            /\ \A m \in (n + 1)..Len(words1) : ~HasCommonRun(words1, words2, m)

\* C26: _find_title_overlap returns the length of the longest run of identical
\* consecutive word tokens of the two lower-cased titles, and 0 when either
\* title is empty or holds no token.
C26_LongestCommonRun ==
    pc = "returned" =>
        /\ ret = LongestCommonRun(arg[1], arg[2])
        /\ (\E t \in {arg[1], arg[2]} : t = <<>> \/ TokenPlaces(t) = {}) => ret = 0

\* "Ab c" against "ab-c, ": two tokens in a row agree once the case
\* is folded and the separators are dropped.
C26_Witness ==
    /\ pc = "returned"
    /\ arg[1] = PieceUpper \o PieceBare
    /\ arg[2] = PieceLower \o PieceBare \o PieceComma
    /\ ret = 2

(***************************************************************************)
(* What duplicate removal and the sort leave alone                         *)
(***************************************************************************)

\* sub is seq with some of its elements left out, the others as they were
\* and in their order.
RECURSIVE IsSubsequence(_, _)
IsSubsequence(sub, seq) ==
    IF sub = <<>> THEN TRUE
    ELSE IF seq = <<>> THEN FALSE
    ELSE IF Head(sub) = Head(seq) THEN IsSubsequence(Tail(sub), Tail(seq))
    ELSE IsSubsequence(sub, Tail(seq))

\* The two lists hold the same elements the same number of times.
SameElements(s, t) ==
    /\ Len(s) = Len(t)
    /\ \A i \in DOMAIN s :
          Cardinality({j \in DOMAIN s : s[j] = s[i]})
              = Cardinality({j \in DOMAIN t : t[j] = s[i]})

\* C27: _remove_arxiv_duplicates leaves its input list and every entry as they
\* were, what it returns being the input with some entries left out; the sort
\* only rearranges the entries kept; and no step of save_yaml changes the
\* BatchConversionResult, its conversions or its counts.
C27_OnlyRemovalAndOrderChange ==
    [][/\ pc \in {"save_yaml", "dedupe", "sort"}
            => (batch_result' = batch_result
                /\ conversion_results' = conversion_results)
       /\ pc = "dedupe"
            => (successful_citations' = successful_citations
                /\ IsSubsequence(deduplicated', successful_citations))
       /\ pc = "sort"
            => (successful_citations' = successful_citations
                /\ SameElements(emitted', deduplicated))]_vars

\* A run where the preprint among three citations was removed: the collected
\* list still holds three, the two kept were written, and the batch result
\* still counts three successes.
C27_Witness ==
    /\ pc = "done"
    /\ Len(successful_citations) = 3
    /\ Len(deduplicated) = 2
    /\ \E i \in 1..3 : IsArxivSourced(successful_citations[i])
    /\ \A i \in 1..2 : ~IsArxivSourced(emitted[i])
    /\ batch_result.successful_conversions = 3
    /\ Len(batch_result.conversions) = 3

(***************************************************************************)
(* SpecRelate: _remove_arxiv_duplicates as its loops run, applied to a     *)
(* list and to the same entries in another order, then to its own output.  *)
(***************************************************************************)

\* A scan that looks at the first paper with a title and no further.
RECURSIVE ScanFirstTitled(_, _, _)
ScanFirstTitled(arxiv_title, non_arxiv_papers, min_overlap) ==
    IF non_arxiv_papers = <<>> THEN FALSE
    ELSE LET non_arxiv_title == TitleOf(Head(non_arxiv_papers))
         IN  IF ~Truthy(non_arxiv_title)
             THEN ScanFirstTitled(arxiv_title, Tail(non_arxiv_papers),
                                  min_overlap)
             ELSE _find_title_overlap(arxiv_title, non_arxiv_title)
                      >= min_overlap

\* The scan of non_arxiv_papers for one arXiv title, in the order of the
\* list: papers without title are passed over, the first paper whose overlap
\* reaches min_overlap ends the scan.  TRUE iff the scan ended that way.
RECURSIVE ScanFrom(_, _, _)
ScanFrom(arxiv_title, non_arxiv_papers, min_overlap) ==
    IF non_arxiv_papers = <<>> THEN FALSE
    ELSE LET non_arxiv_title == TitleOf(Head(non_arxiv_papers))
         IN  IF ~Truthy(non_arxiv_title)
             THEN ScanFrom(arxiv_title, Tail(non_arxiv_papers), min_overlap)
             ELSE IF _find_title_overlap(arxiv_title, non_arxiv_title)
                        >= min_overlap
             THEN TRUE
             ELSE ScanFrom(arxiv_title, Tail(non_arxiv_papers), min_overlap)

\* The loop over arxiv_papers: arxiv_to_remove when it ends.
RECURSIVE MarkInOrder(_, _, _)
MarkInOrder(arxiv_papers, non_arxiv_papers, min_overlap) ==
    IF arxiv_papers = <<>> THEN {}
    ELSE LET arxiv_paper == Head(arxiv_papers)
             later == MarkInOrder(Tail(arxiv_papers), non_arxiv_papers,
                                  min_overlap)
         IN  IF ~Truthy(TitleOf(arxiv_paper)) THEN later
             ELSE IF ScanFrom(TitleOf(arxiv_paper), non_arxiv_papers,
                              min_overlap)
             THEN {arxiv_paper.id} \cup later
             ELSE later

\* _remove_arxiv_duplicates, statement by statement.
RemoveByLoops(citations, min_overlap) ==
    LET FromArxiv(c) == Get(c, "publisher") = CoRR
        NotFromArxiv(c) == Get(c, "publisher") # CoRR
        arxiv_papers == SelectSeq(citations, FromArxiv)
        non_arxiv_papers == SelectSeq(citations, NotFromArxiv)
    IN  FilterOut(citations,
                  MarkInOrder(arxiv_papers, non_arxiv_papers, min_overlap))

IdC == <<"d", "o", "i", ":", "1", "0", ".", "1", "/", "c">>

\* Two arXiv papers, three papers of a journal, one of them without title,
\* and a paper of the journal under the id of the first arXiv paper.
ArxivSix == [id |-> IdA, publisher |-> CoRR, title |-> TitleSix]
ArxivFive == [id |-> IdB, publisher |-> CoRR, title |-> TitleFive]
PubSeven == [id |-> IdC, publisher |-> JournalNature, title |-> TitleSeven]
PubFive == [id |-> IdC, publisher |-> JournalNature, title |-> TitleFive]
PubNoTitle == [id |-> IdC, publisher |-> JournalNature]
PubSharedId == [id |-> IdA, publisher |-> JournalNature, title |-> TitleSeven]

RelatedCitations ==
    {ArxivSix, ArxivFive, PubSeven, PubFive, PubNoTitle, PubSharedId}

\* The longest list.
MaxRelated == 3

\* The lists that hold the entries of citations in any order.
Reorderings(citations) ==
    {[i \in DOMAIN citations |-> citations[p[i]]] :
        p \in Permutations(DOMAIN citations)}

InitRelate ==
    /\ pc = "dedupe"
    /\ successful_citations \in BoundedSeq(RelatedCitations, MaxRelated)
    /\ arg \in Reorderings(successful_citations)
    /\ min_overlap_arg \in MinOverlaps
    /\ deduplicated = <<>>
    /\ ret = <<>>
    /\ emitted = <<>>
    /\ arxiv_to_remove = Unused
    /\ marked = Unused
    /\ citation_priority = Unused
    /\ entry = Unused
    /\ resolved = Unused
    /\ result = Unused
    /\ input_paths = Unused
    /\ all_entries = Unused
    /\ file_idx = Unused
    /\ conversion_results = Unused
    /\ batch_result = Unused

\* _remove_arxiv_duplicates of the list and of the list in the other order.
RemoveFromBoth ==
    /\ pc = "dedupe"
    /\ deduplicated' = RemoveByLoops(successful_citations, min_overlap_arg)
    /\ ret' = RemoveByLoops(arg, min_overlap_arg)
    /\ pc' = "deduplicated"
    /\ UNCHANGED <<min_overlap_arg, citation_priority, entry, resolved,
                   result, input_paths, all_entries, file_idx,
                   conversion_results, batch_result, successful_citations,
                   arxiv_to_remove, marked, emitted, arg>>

\* _remove_arxiv_duplicates of what the first call returned.
RemoveAgain ==
    /\ pc = "deduplicated"
    /\ emitted' = RemoveByLoops(deduplicated, min_overlap_arg)
    /\ pc' = "again"
    /\ UNCHANGED <<min_overlap_arg, citation_priority, entry, resolved,
                   result, input_paths, all_entries, file_idx,
                   conversion_results, batch_result, successful_citations,
                   arxiv_to_remove, marked, deduplicated, arg, ret>>

NextRelate == RemoveFromBoth \/ RemoveAgain

SpecRelate == InitRelate /\ [][NextRelate]_vars

\* The entries of the list.
Entries(citations) == {citations[i] : i \in DOMAIN citations}

\* C28: in whatever order the entries of a list are given, the same entries
\* are removed and the same are kept.
C28_RemovalIgnoresOrder ==
    pc # "dedupe" =>
        /\ Entries(successful_citations) \ Entries(deduplicated)
              = Entries(arg) \ Entries(ret)
        /\ SameElements(deduplicated, ret)

\* The arXiv paper ahead of a published paper that falls one word short and
\* one that reaches the threshold, against the order where the scan ends at
\* the first published paper.
C28_Witness ==
    /\ pc = "deduplicated"
    /\ min_overlap_arg = DefaultMinOverlap
    /\ successful_citations = <<ArxivFive, PubSeven, PubFive>>
    /\ arg = <<PubFive, PubSeven, ArxivFive>>
    /\ deduplicated = <<PubSeven, PubFive>>
    /\ ret = <<PubFive, PubSeven>>

\* C29: _remove_arxiv_duplicates applied to its own output returns it as it is.
C29_RemovalIdempotent ==
    pc = "again" => emitted = deduplicated

\* A first call that removed an arXiv paper and kept another, and a second
\* call on what was kept.
C29_Witness ==
    /\ pc = "again"
    /\ min_overlap_arg = DefaultMinOverlap
    /\ successful_citations = <<ArxivFive, ArxivSix, PubFive>>
    /\ deduplicated = <<ArxivSix, PubFive>>
    /\ emitted = deduplicated

====
